---- MODULE Spec2Model ----
(***************************************************************************)
(* A model of the human-style Sudoku solver of python/SudokuSolver.py:     *)
(* the board (SudokuCell / SudokuGroup / SudokuPuzzle), the Sudoku-rule    *)
(* propagator, the conflict detector, the inference techniques and the     *)
(* solver driver (Setup / Solve / SolveNextStep).                          *)
(***************************************************************************)
EXTENDS Integers, Sequences, FiniteSets, TLC

(***************************************************************************)
(* Board geometry (SudokuCell.__init__, SudokuPuzzle.__init__).            *)
(***************************************************************************)
Cells == 0 .. 80

Digits == 1 .. 9

RowIndex(i) == i \div 9

ColumnIndex(i) == i % 9

BoxIndex(i) == (ColumnIndex(i) \div 3) + ((RowIndex(i) \div 3) * 3)

\* AllGroups = Rows + Columns + Boxes: rows are 0..8, columns 9..17, boxes 18..26.
AllGroups == 0 .. 26

Rows == 0 .. 8

Columns == 9 .. 17

Boxes == 18 .. 26

GroupType(g) == IF g \in Rows THEN "Row" ELSE IF g \in Columns THEN "Column" ELSE "Box"

GroupIndex(g) == g % 9

GroupCells ==
  [g \in AllGroups |->
     {i \in Cells : IF g \in Rows THEN RowIndex(i) = GroupIndex(g)
                    ELSE IF g \in Columns THEN ColumnIndex(i) = GroupIndex(g)
                    ELSE BoxIndex(i) = GroupIndex(g)}]

RowOf(i) == RowIndex(i)

ColumnOf(i) == 9 + ColumnIndex(i)

BoxOf(i) == 18 + BoxIndex(i)

Groups == [i \in Cells |-> {RowOf(i), ColumnOf(i), BoxOf(i)}]

SharedGroupCells ==
  [i \in Cells |-> (UNION {GroupCells[g] : g \in Groups[i]}) \ {i}]

(***************************************************************************)
(* Small helpers over sets of integers.                                    *)
(***************************************************************************)
\* a function given by an expression, as an explicit (evaluated) function:
\* merging it with the empty function leaves it as it is
Evaluated(f) == f @@ << >>

Min(S) == CHOOSE x \in S : \A y \in S : x <= y

Max(S) == CHOOSE x \in S : \A y \in S : x >= y

RECURSIVE SortedSeq(_)
SortedSeq(S) == IF S = {} THEN << >> ELSE <<Min(S)>> \o SortedSeq(S \ {Min(S)})

\* the sequences of two elements of S
Seq2(S) == {<<a, b>> : a \in S, b \in S}

\* the k-element subsets of S (itertools.combinations, as sets)
RECURSIVE Combinations(_, _)
Combinations(S, k) ==
  IF k = 0 THEN {{}}
  ELSE IF Cardinality(S) < k THEN {}
  ELSE LET x == Min(S)
       IN  {c \cup {x} : c \in Combinations(S \ {x}, k - 1)} \cup Combinations(S \ {x}, k)

(***************************************************************************)
(* SudokuCell                                                              *)
(***************************************************************************)
\* SudokuCell.Reset: the state of a freshly constructed cell
ResetCell ==
  [Solved |-> FALSE, Original |-> FALSE, Conflicting |-> FALSE, Value |-> 0,
   Candidates |-> Digits, StepEliminatedCandidates |-> {}]

CandidateCount(cell) == Cardinality(cell.Candidates)

\* a faulty IsCandidate for which a cell with two candidates has none either
IsCandidateOfThree(cell, candidate) ==
  IF CandidateCount(cell) <= 2 THEN FALSE ELSE candidate \in cell.Candidates

\* SudokuCell.IsCandidate: a cell with at most one candidate has none
IsCandidate(cell, candidate) ==
  IF CandidateCount(cell) <= 1 THEN FALSE ELSE candidate \in cell.Candidates

\* a faulty EliminateCandidate that removes the next digit as well
EliminateTwo(cell, candidate) ==
  IF candidate \in cell.Candidates
  THEN [cell EXCEPT !.Candidates = @ \ {candidate, (candidate % 9) + 1},
                    !.StepEliminatedCandidates = @ \cup {candidate}]
  ELSE cell

\* SudokuCell.EliminateCandidate (the cell after the call)
EliminateCandidate(cell, candidate) ==
  IF candidate \in cell.Candidates
  THEN [cell EXCEPT !.Candidates = @ \ {candidate},
                    !.StepEliminatedCandidates = @ \cup {candidate}]
  ELSE cell

\* a faulty EliminateCandidates that keeps every other digit instead
KeepOthers(cell, candidates) ==
  [cell EXCEPT !.Candidates = Digits \ candidates,
               !.StepEliminatedCandidates = @ \cup (cell.Candidates \cap candidates)]

\* SudokuCell.EliminateCandidates (the cell after the call)
EliminateCandidates(cell, candidates) ==
  [cell EXCEPT !.Candidates = @ \ candidates,
               !.StepEliminatedCandidates = @ \cup (cell.Candidates \cap candidates)]

\* SudokuCell.SetValue raises when the cell is already solved with another value
SetValueRaises(cell, value) == cell.Solved /\ cell.Value # value

\* SudokuCell.SetValue (the cell after a call that does not raise)
SetValue(cell, value, isOriginal) ==
  [cell EXCEPT !.Value = value, !.Solved = TRUE, !.Candidates = {value},
               !.Original = isOriginal]

(***************************************************************************)
(* SudokuPuzzle: a function from the cell index to the cell.               *)
(***************************************************************************)
NewPuzzle == Evaluated([i \in Cells |-> ResetCell])

\* a faulty SudokuPuzzle.Solved, true as soon as one cell is solved
AnySolved(P) == \E i \in Cells : P[i].Solved

\* SudokuPuzzle.Solved
PuzzleSolved(P) == \A i \in Cells : P[i].Solved

PuzzleConflicting(P) == \E i \in Cells : P[i].Conflicting

ClearStepEliminatedCandidates(P) ==
  Evaluated([i \in Cells |-> [P[i] EXCEPT !.StepEliminatedCandidates = {}]])

\* SudokuGroup.Solved
GroupSolved(P, g) == \A i \in GroupCells[g] : P[i].Solved

\* SudokuGroup.GetCellsWithCandidate
GetCellsWithCandidate(P, g, candidate) ==
  {i \in GroupCells[g] : IsCandidate(P[i], candidate)}

\* the characters LoadFromString accepts, and the digit each stands for
BlankChars == {".", "0", " "}

DigitChars == {"1", "2", "3", "4", "5", "6", "7", "8", "9"}

CharValue(c) ==
  CASE c = "1" -> 1 [] c = "2" -> 2 [] c = "3" -> 3 [] c = "4" -> 4 [] c = "5" -> 5
    [] c = "6" -> 6 [] c = "7" -> 7 [] c = "8" -> 8 [] c = "9" -> 9 [] OTHER -> 0

\* the characters that send LoadFromString into its line-by-line branch
LineBreakChars == {"\n", "\r"}

HasLineBreak(s) == \E k \in 1 .. Len(s) : s[k] \in LineBreakChars

\* str.splitlines: the lines of s without their line boundaries; "\r\n" is
\* one boundary, the form feed is a boundary too, and a boundary at the end
\* of the string opens no further line
RECURSIVE splitlines(_)
splitlines(s) ==
  IF Len(s) = 0 THEN << >>
  ELSE IF \A k \in 1 .. Len(s) : s[k] \notin LineBreakChars \cup {"\f"} THEN << s >>
  ELSE LET k == Min({j \in 1 .. Len(s) : s[j] \in LineBreakChars \cup {"\f"}})
           rest == IF s[k] = "\r" /\ k < Len(s) /\ s[k + 1] = "\n" THEN k + 2 ELSE k + 1
       IN  << SubSeq(s, 1, k - 1) >> \o splitlines(SubSeq(s, rest, Len(s)))

\* the lines put together again (s += line)
RECURSIVE JoinedLines(_)
JoinedLines(lines) ==
  IF Len(lines) = 0 THEN << >> ELSE Head(lines) \o JoinedLines(Tail(lines))

\* the string LoadFromString goes on with after its line-by-line branch
Flattened(s) == IF HasLineBreak(s) THEN JoinedLines(splitlines(s)) ELSE s

\* SudokuPuzzle.LoadFromString: which of its checks rejects the string s (a
\* sequence of characters), in the order of the code; "none" if it is loaded
LoadError(s) ==
  IF HasLineBreak(s) /\ Len(splitlines(s)) # 9 THEN "lines"
  ELSE IF HasLineBreak(s) /\ \E l \in 1 .. 9 : Len(splitlines(s)[l]) # 9 THEN "line length"
  ELSE IF Len(Flattened(s)) # 81 THEN "size"
  ELSE IF \E k \in 1 .. 81 : Flattened(s)[k] \notin BlankChars \cup DigitChars THEN "character"
  ELSE "none"

\* SudokuPuzzle.LoadFromString: whether the string is accepted
LoadOk(s) == LoadError(s) = "none"

\* the cells LoadFromString sets from the flat string: Reset, then SetValue
\* for every digit
LoadedCells(flat) ==
  Evaluated([i \in Cells |->
     IF flat[i + 1] \in BlankChars THEN ResetCell
     ELSE SetValue(ResetCell, CharValue(flat[i + 1]), TRUE)])

\* SudokuPuzzle.LoadFromString: the cells after a successful load
LoadFromString(s) == LoadedCells(Flattened(s))

\* a faulty LoadFromString that resets the board and sets cells as it reads,
\* up to the character it rejects
LoadFromStringUnchecked(P, s) ==
  Evaluated([i \in Cells |->
     IF /\ i + 1 <= Len(s)
        /\ \A k \in 1 .. (i + 1) : s[k] \in BlankChars \cup DigitChars
        /\ s[i + 1] \in DigitChars
     THEN SetValue(ResetCell, CharValue(s[i + 1]), TRUE)
     ELSE ResetCell])

\* SudokuPuzzle.LoadFromString called on a puzzle whose cells are P: the cells
\* after the call; every check comes before the Reset
LoadFromStringOn(P, s) == IF LoadOk(s) THEN LoadFromString(s) ELSE P

\* SudokuPuzzle.ToString: the character written for a cell's value, with the
\* default blank character for 0
ValueChar(v) ==
  CASE v = 1 -> "1" [] v = 2 -> "2" [] v = 3 -> "3" [] v = 4 -> "4" [] v = 5 -> "5"
    [] v = 6 -> "6" [] v = 7 -> "7" [] v = 8 -> "8" [] v = 9 -> "9" [] OTHER -> "."

\* a faulty ToString that writes the givens only
ToStringOfGivens(P) ==
  [k \in 1 .. 81 |-> IF P[k - 1].Original THEN ValueChar(P[k - 1].Value) ELSE "."]

\* SudokuPuzzle.ToString (the name ToString is taken by the TLC module): the
\* flat rendering, one character per cell
PuzzleToString(P) == [k \in 1 .. 81 |-> ValueChar(P[k - 1].Value)]

(***************************************************************************)
(* Sudoku-rule propagation and conflict detection.                         *)
(***************************************************************************)
\* a faulty inner loop that stops at the first value it eliminates
EliminateFirstSolvedValue(cell, P, solvedPeers) ==
  LET hits == {k \in 1 .. Len(solvedPeers) : IsCandidate(cell, P[solvedPeers[k]].Value)}
  IN  IF hits = {} THEN cell
      ELSE EliminateCandidate(cell, P[solvedPeers[Min(hits)]].Value)

\* the inner loop of ScanSudokuRules as it acts on one cell: the solved cells
\* are visited in index order, and each removes its value from a peer that
\* still IsCandidate for it
RECURSIVE EliminateSolvedValues(_, _, _)
EliminateSolvedValues(cell, P, solvedPeers) ==
  IF solvedPeers = << >> THEN cell
  ELSE LET v == P[Head(solvedPeers)].Value
       IN  EliminateSolvedValues(
             IF IsCandidate(cell, v) THEN EliminateCandidate(cell, v) ELSE cell,
             P, Tail(solvedPeers))

\* SudokuSolver.ScanSudokuRules: the puzzle after the call
ScanSudokuRules(P) ==
  Evaluated([c \in Cells |->
     EliminateSolvedValues(P[c], P, SortedSeq({s \in SharedGroupCells[c] : P[s].Solved}))])

\* SudokuSolver.ScanSudokuRules: its return value (madeProgress)
ScanSudokuRulesProgress(P) == ScanSudokuRules(P) # P

\* a faulty CheckForConflicts that looks for equal values in the columns only
ConflictingColumnCells(P) ==
  {i \in Cells : P[i].Solved /\ \E j \in GroupCells[ColumnOf(i)] \ {i} :
                                  P[j].Solved /\ P[j].Value = P[i].Value}
    \cup {i \in Cells : CandidateCount(P[i]) = 0}

\* the cells CheckForConflicts flags: solved cells sharing a value within a
\* group, and cells left without any candidate
ConflictingCells(P) ==
  {i \in Cells : P[i].Solved /\ \E j \in SharedGroupCells[i] : P[j].Solved /\ P[j].Value = P[i].Value}
    \cup {i \in Cells : CandidateCount(P[i]) = 0}

\* SudokuSolver.CheckForConflicts: its return value
CheckForConflicts(P) == ConflictingCells(P) # {}

\* a faulty CheckForConflicts that flags the duplicates only
MarkDuplicates(P) ==
  Evaluated([i \in Cells |->
    IF P[i].Solved /\ \E j \in SharedGroupCells[i] : P[j].Solved /\ P[j].Value = P[i].Value
    THEN [P[i] EXCEPT !.Conflicting = TRUE] ELSE P[i]])

\* SudokuSolver.CheckForConflicts: the puzzle after the call
MarkConflicts(P) ==
  LET conflicting == ConflictingCells(P)
  IN  Evaluated([i \in Cells |->
        IF i \in conflicting THEN [P[i] EXCEPT !.Conflicting = TRUE] ELSE P[i]])

(***************************************************************************)
(* Techniques.  Each Scan operator gives the set of outcomes the call can  *)
(* have, one per order in which the unordered sets of the code may be      *)
(* iterated; the empty set stands for "returned False, nothing changed".   *)
(* An outcome holds the puzzle at return, the technique name, the changed  *)
(* cells handed to AddStep, and whether SetValue raised.                   *)
(***************************************************************************)
Outcome(P, technique, changedCells) ==
  [P |-> Evaluated(P), Technique |-> technique, ChangedCells |-> changedCells, End |-> "return"]

\* the technique does not return: SetValue raises in it ("raise"), or a loop of
\* a chain builder never ends ("hang"); the board is the one it was called on
NoReturn(P, technique, end) ==
  [P |-> P, Technique |-> technique, ChangedCells |-> {}, End |-> end]

\* a faulty ScanNakedSingle that also solves a cell left with two candidates
ScanNakedSingleOfTwo(P, createSteps) ==
  LET singles == {i \in Cells : ~P[i].Solved /\ CandidateCount(P[i]) \in {1, 2}}
  IN  IF singles = {} THEN {}
      ELSE LET cell == Min(singles)
           IN  {Outcome([P EXCEPT ![cell] = SetValue(@, Min(P[cell].Candidates), FALSE)],
                        "Naked Single", {cell})}

\* a faulty ScanNakedSingle that looks for a single only when steps are recorded
ScanNakedSingleRecorded(P, createSteps) ==
  LET singles == {i \in Cells : createSteps /\ ~P[i].Solved /\ CandidateCount(P[i]) = 1}
  IN  IF singles = {} THEN {}
      ELSE LET cell == Min(singles)
           IN  {Outcome([P EXCEPT ![cell] = SetValue(@, Min(P[cell].Candidates), FALSE)],
                        "Naked Single", {cell})}

\* SudokuSolver.ScanNakedSingle
ScanNakedSingle(P, createSteps) ==
  LET singles == {i \in Cells : ~P[i].Solved /\ CandidateCount(P[i]) = 1}
  IN  IF singles = {} THEN {}
      ELSE LET cell == Min(singles)
               candidate == CHOOSE d \in P[cell].Candidates : TRUE
           IN  {Outcome([P EXCEPT ![cell] = SetValue(@, candidate, FALSE)],
                        "Naked Single", {cell})}

\* a faulty ScanHiddenSingle that returns True without changing the board
ScanHiddenSingleIdle(P, createSteps) == {Outcome(P, "Hidden Single", {})}

\* SudokuSolver.ScanHiddenSingle
ScanHiddenSingle(P, createSteps) ==
  LET hits == {gd \in (AllGroups \X Digits) :
                 /\ ~GroupSolved(P, gd[1])
                 /\ Cardinality(GetCellsWithCandidate(P, gd[1], gd[2])) = 1}
  IN  IF hits = {} THEN {}
      ELSE LET g == Min({gd[1] : gd \in hits})
               candidate == Min({gd[2] : gd \in {h \in hits : h[1] = g}})
               cell == CHOOSE i \in GetCellsWithCandidate(P, g, candidate) : TRUE
           IN  {Outcome([P EXCEPT ![cell] = SetValue(@, candidate, FALSE)],
                        "Hidden Single", {cell})}

\* the puzzle after EliminateCandidates(candidates) on every cell of `cells`
EliminateFrom(P, cells, candidates) ==
  [i \in Cells |-> IF i \in cells THEN EliminateCandidates(P[i], candidates) ELSE P[i]]

\* the cells of `cells` for which EliminateCandidates(candidates) returns True
ChangedBy(P, cells, candidates) == {i \in cells : P[i].Candidates \cap candidates # {}}

\* the first pair of a set of pairs, in the order of two nested loops
MinPair(S) ==
  CHOOSE p \in S : \A q \in S : p[1] < q[1] \/ (p[1] = q[1] /\ p[2] <= q[2])

\* candidateCounts of the scans: for each candidate the cells of group g that
\* IsCandidate for it
CandidateCounts(P, g) == [d \in Digits |-> GetCellsWithCandidate(P, g, d)]

\* ScanPointingCombo: the groups other than g that all of `cells` share
OtherSharedGroups(cells, g) ==
  {h \in AllGroups \ {g} : \A i \in cells : h \in Groups[i]}

\* ScanPointingCombo: the cells a pointing combo of group g removes the
\* candidate from: those of the removal group that are not in g
PointingRemovalCells(cells, g) ==
  UNION {GroupCells[h] \ GroupCells[g] : h \in OtherSharedGroups(cells, g)}

\* SudokuSolver.ScanPointingCombo
ScanPointingCombo(P, createSteps, pointingCombo) ==
  LET hits == {gd \in (AllGroups \X Digits) :
                 /\ ~GroupSolved(P, gd[1])
                 /\ LET cells == GetCellsWithCandidate(P, gd[1], gd[2])
                    IN  /\ Cardinality(cells) = pointingCombo
                        /\ ChangedBy(P, PointingRemovalCells(cells, gd[1]), {gd[2]}) # {}}
  IN  IF hits = {} THEN {}
      ELSE LET gd == MinPair(hits)
               cells == GetCellsWithCandidate(P, gd[1], gd[2])
               removal == PointingRemovalCells(cells, gd[1])
           IN  {Outcome(EliminateFrom(P, removal, {gd[2]}),
                        IF pointingCombo = 3 THEN "Pointing Triplet" ELSE "Pointing Pair",
                        ChangedBy(P, removal, {gd[2]}))}

NakedName(nakedCombo) ==
  CASE nakedCombo = 2 -> "Naked Pair" [] nakedCombo = 3 -> "Naked Triplet"
    [] nakedCombo = 4 -> "Naked Quad" [] OTHER -> "Naked Quint"

\* ScanNakedCombo: the naked combos of group g that make progress
NakedCombos(P, g, nakedCombo) ==
  LET validCells == {i \in GroupCells[g] :
                       CandidateCount(P[i]) >= 2 /\ CandidateCount(P[i]) <= nakedCombo}
  IN  {cells \in Combinations(validCells, nakedCombo) :
         LET candidates == UNION {P[i].Candidates : i \in cells}
         IN  /\ Cardinality(candidates) = nakedCombo
             /\ ChangedBy(P, GroupCells[g] \ cells, candidates) # {}}

\* SudokuSolver.ScanNakedCombo: the combinations of a group are taken from a
\* set, so any combination of the first group that has one may come first
ScanNakedCombo(P, createSteps, nakedCombo) ==
  LET groups == {g \in AllGroups : ~GroupSolved(P, g) /\ NakedCombos(P, g, nakedCombo) # {}}
  IN  IF groups = {} THEN {}
      ELSE LET g == Min(groups)
           IN  {LET candidates == UNION {P[i].Candidates : i \in cells}
                IN  Outcome(EliminateFrom(P, GroupCells[g] \ cells, candidates),
                            NakedName(nakedCombo),
                            ChangedBy(P, GroupCells[g] \ cells, candidates))
                : cells \in NakedCombos(P, g, nakedCombo)}

HiddenName(hiddenCombo) ==
  CASE hiddenCombo = 2 -> "Hidden Pair" [] hiddenCombo = 3 -> "Hidden Triplet"
    [] OTHER -> "Hidden Quad"

\* ScanHiddenCombo: the cells of group g that hold any of the candidates
HiddenCells(P, g, candidates) ==
  UNION {GetCellsWithCandidate(P, g, d) : d \in candidates}

\* ScanHiddenCombo: the hidden combos (sets of candidates) of group g that
\* make progress
HiddenCombos(P, g, hiddenCombo) ==
  LET unsolvedCandidates ==
        UNION {P[i].Candidates : i \in {j \in GroupCells[g] : CandidateCount(P[j]) >= 2}}
  IN  {candidates \in Combinations(unsolvedCandidates, hiddenCombo) :
         LET cells == HiddenCells(P, g, candidates)
         IN  /\ Cardinality(cells) = hiddenCombo
             /\ \A i \in cells : Cardinality(P[i].Candidates \cap candidates) >= 2
             /\ Cardinality((UNION {P[i].Candidates : i \in cells}) \cap candidates) = hiddenCombo
             /\ \E i \in cells : P[i].Candidates \ candidates # {}}

\* SudokuSolver.ScanHiddenCombo: the combinations of candidates are taken
\* from a set, so any combination of the first group that has one may come first
ScanHiddenCombo(P, createSteps, hiddenCombo) ==
  LET groups == {g \in AllGroups : ~GroupSolved(P, g) /\ HiddenCombos(P, g, hiddenCombo) # {}}
  IN  IF groups = {} THEN {}
      ELSE LET g == Min(groups)
           IN  {LET cells == HiddenCells(P, g, candidates)
                IN  Outcome([i \in Cells |->
                               IF i \in cells
                               THEN EliminateCandidates(P[i], P[i].Candidates \ candidates)
                               ELSE P[i]],
                            HiddenName(hiddenCombo),
                            {i \in cells : P[i].Candidates \ candidates # {}})
                : candidates \in HiddenCombos(P, g, hiddenCombo)}

FishName(numGroups) ==
  CASE numGroups = 2 -> "X-Wing" [] numGroups = 3 -> "Swordfish" [] OTHER -> "Jellyfish"

\* the order in which itertools.combinations yields the combinations of the
\* lines of one type, each combination an increasing sequence
RECURSIVE SeqLess(_, _)
SeqLess(a, b) ==
  /\ a # << >>
  /\ \/ Head(a) < Head(b)
     \/ (Head(a) = Head(b) /\ SeqLess(Tail(a), Tail(b)))

\* ScanXWingOrSwordfishOrJellyfish: the cells of the lines `groups` that have
\* two or more candidates, the candidate among them
FishCells(P, groups, candidate) ==
  {i \in UNION {GroupCells[g] : g \in groups} :
     CandidateCount(P[i]) >= 2 /\ candidate \in P[i].Candidates}

\* ScanXWingOrSwordfishOrJellyfish: the lines of the other type through `cells`
IntersectingGroups(cells, likeGroups) ==
  IF likeGroups = Rows THEN {ColumnOf(i) : i \in cells} ELSE {RowOf(i) : i \in cells}

\* ScanXWingOrSwordfishOrJellyfish: the cells the fish removes the candidate from
FishRemovalCells(cells, likeGroups) ==
  UNION {GroupCells[g] : g \in IntersectingGroups(cells, likeGroups)} \ cells

\* ScanXWingOrSwordfishOrJellyfish: `groups` and candidate form a fish that
\* makes progress
IsFish(P, likeGroups, groups, candidate, numGroups) ==
  /\ \A g \in groups : ~GroupSolved(P, g)
  /\ LET cells == FishCells(P, groups, candidate)
     IN  /\ \A g \in groups :
               LET count == Cardinality(cells \cap GroupCells[g])
               IN  2 <= count /\ count <= numGroups
         /\ Cardinality(IntersectingGroups(cells, likeGroups)) = numGroups
         /\ ChangedBy(P, FishRemovalCells(cells, likeGroups), {candidate}) # {}

\* the fishes of one line type: <<lines as an increasing sequence, candidate>>
Fishes(P, likeGroups, numGroups) ==
  {<<SortedSeq(groups), candidate>> :
     <<groups, candidate>> \in
        {gc \in Combinations(likeGroups, numGroups) \X Digits :
           IsFish(P, likeGroups, gc[1], gc[2], numGroups)}}

\* the first fish in the order of the loops: combinations, then candidates
FirstFish(S) ==
  CHOOSE f \in S : \A h \in S :
     (f[1] = h[1] /\ f[2] <= h[2]) \/ SeqLess(f[1], h[1])

\* SudokuSolver.ScanXWingOrSwordfishOrJellyfish
ScanXWingOrSwordfishOrJellyfish(P, createSteps, numGroups) ==
  LET rowFishes == Fishes(P, Rows, numGroups)
      likeGroups == IF rowFishes # {} THEN Rows ELSE Columns
      fishes == IF rowFishes # {} THEN rowFishes ELSE Fishes(P, Columns, numGroups)
  IN  IF fishes = {} THEN {}
      ELSE LET fish == FirstFish(fishes)
               groups == {fish[1][k] : k \in 1 .. numGroups}
               cells == FishCells(P, groups, fish[2])
               removal == FishRemovalCells(cells, likeGroups)
           IN  {Outcome(EliminateFrom(P, removal, {fish[2]}), FishName(numGroups),
                        ChangedBy(P, removal, {fish[2]}))}

(***************************************************************************)
(* SudokuSinglesChain.  A chain is a record: Candidate, Links (a sequence  *)
(* of sets of cells), Cells, and Colorings, the set of the pairs           *)
(* <<Colors[0], Colors[1]>> the colouring loop can produce: its seed cell  *)
(* and the coloured cell it expands next come from unordered sets.         *)
(***************************************************************************)
\* CreateSinglesChainsForCandidate: allLinks, scanning the groups from g on
RECURSIVE AllLinks(_, _, _, _)
AllLinks(P, candidate, g, allLinks) ==
  IF g > 26 THEN allLinks
  ELSE LET link == GetCellsWithCandidate(P, g, candidate)
       IN  AllLinks(P, candidate, g + 1,
                    IF Cardinality(link) = 2 /\ \A k \in 1 .. Len(allLinks) : allLinks[k] # link
                    THEN Append(allLinks, link) ELSE allLinks)

\* the cells of a chain given as a sequence of links
LinkCells(chain) == UNION {chain[k] : k \in 1 .. Len(chain)}

\* a sequence without its elements at the positions i and j
RemoveTwo(s, i, j) ==
  LET keep == SortedSeq(1 .. Len(s) \ {i, j})
  IN  [k \in 1 .. Len(keep) |-> s[keep[k]]]

\* the merge loop of CreateSinglesChainsForCandidate and of CreateSuperChains:
\* a chain is the sequence Items of what was merged into it and the set Cells
\* through which it merges; the first two chains that share a cell become
\* one chain at the end of the list, until no two chains share a cell
RECURSIVE MergeChains(_)
MergeChains(chains) ==
  LET pairs == {p \in (1 .. Len(chains)) \X (1 .. Len(chains)) :
                  p[1] < p[2] /\ chains[p[1]].Cells \cap chains[p[2]].Cells # {}}
  IN  IF pairs = {} THEN chains
      ELSE LET p == MinPair(pairs)
           IN  MergeChains(Append(RemoveTwo(chains, p[1], p[2]),
                                  [Items |-> chains[p[1]].Items \o chains[p[2]].Items,
                                   Cells |-> chains[p[1]].Cells \cup chains[p[2]].Cells]))

\* the cells linked to a cell by the links of a chain
LinkedCells(chain, coloredCell) ==
  (UNION {chain[k] : k \in {n \in 1 .. Len(chain) : coloredCell \in chain[n]}}) \ {coloredCell}

\* a faulty pass of the colouring loop that gives the linked cells the colour
\* of the cell they are linked to
ColorizePassSameColor(chain, colors) ==
  LET uncoloredCells == LinkCells(chain) \ (colors[1] \cup colors[2])
  IN  {LET assigned == LinkedCells(chain, coloredCell) \cap uncoloredCells
       IN  IF coloredCell \in colors[1]
           THEN <<colors[1] \cup assigned, colors[2]>>
           ELSE <<colors[1], colors[2] \cup assigned>>
       : coloredCell \in {c \in colors[1] \cup colors[2] :
                            LinkedCells(chain, c) \cap uncoloredCells # {}}}

\* one pass of the colouring loop: some coloured cell that is linked to
\* uncoloured cells puts all of them in the other colour
ColorizePass(chain, colors) ==
  LET uncoloredCells == LinkCells(chain) \ (colors[1] \cup colors[2])
  IN  {LET assigned == LinkedCells(chain, coloredCell) \cap uncoloredCells
       IN  IF coloredCell \in colors[1]
           THEN <<colors[1], colors[2] \cup assigned>>
           ELSE <<colors[1] \cup assigned, colors[2]>>
       : coloredCell \in {c \in colors[1] \cup colors[2] :
                            LinkedCells(chain, c) \cap uncoloredCells # {}}}

\* the colouring loop, run from every colouring of `partial` until no pass
\* assigns a cell: a colouring that then leaves a cell uncoloured is one on
\* which the loop of the code never ends
RECURSIVE Colorize(_, _)
Colorize(chain, partial) ==
  LET active == {colors \in partial : ColorizePass(chain, colors) # {}}
  IN  IF active = {} THEN partial
      ELSE Colorize(chain, (partial \ active)
                             \cup UNION {ColorizePass(chain, colors) : colors \in active})

\* SudokuSinglesChain.CreateSinglesChainsForCandidate
CreateSinglesChainsForCandidate(P, candidate) ==
  LET allLinks == AllLinks(P, candidate, 0, << >>)
      chains == MergeChains([k \in 1 .. Len(allLinks) |->
                               [Items |-> <<allLinks[k]>>, Cells |-> allLinks[k]]])
  IN  [k \in 1 .. Len(chains) |->
         [Candidate |-> candidate, Links |-> chains[k].Items, Cells |-> chains[k].Cells,
          Colorings |-> Colorize(chains[k].Items, {<<{cell}, {}>> : cell \in chains[k].Cells})]]

\* SudokuSinglesChain.CreateAllSinglesChains, from the candidate on
RECURSIVE CreateAllSinglesChains(_, _)
CreateAllSinglesChains(P, candidate) ==
  IF candidate > 9 THEN << >>
  ELSE Evaluated(CreateSinglesChainsForCandidate(P, candidate))
         \o CreateAllSinglesChains(P, candidate + 1)

\* the colourings of a chain on which the colouring loop ended
CompleteColorings(chain) ==
  {colors \in chain.Colorings : colors[1] \cup colors[2] = chain.Cells}

\* a colouring loop that never ends whatever the chains are
AlwaysHangs(chains) == TRUE

\* GenerateSinglesChains does not return: a colouring loop never ends
SinglesChainsHang(chains) ==
  \E k \in 1 .. Len(chains) : CompleteColorings(chains[k]) # chains[k].Colorings

\* ScanSinglesChainRule2: the groups that hold two or more cells of a colour
ViolatingGroups(color) ==
  {g \in AllGroups : Cardinality(color \cap GroupCells[g]) > 1}

\* ScanSinglesChainRule2: the board after the rule found `color` violating:
\* the candidate leaves the cells of the colour and solves those of the other
SinglesChainRule2Puzzle(P, candidate, color, solution) ==
  [i \in Cells |->
     IF i \in solution
     THEN SetValue(EliminateCandidates(
                     IF i \in color THEN EliminateCandidate(P[i], candidate) ELSE P[i],
                     P[i].Candidates \ {candidate}), candidate, FALSE)
     ELSE IF i \in color THEN EliminateCandidate(P[i], candidate)
     ELSE P[i]]

\* a faulty ScanSinglesChainRule2 that never calls ScanSudokuRules
SinglesChainRule2Unpropagated(P, createSteps, chain, colors) ==
  LET colorNum == IF ViolatingGroups(colors[1]) # {} THEN 1 ELSE 2
      color == colors[colorNum]
      solution == colors[3 - colorNum]
  IN  IF ViolatingGroups(colors[1]) = {} /\ ViolatingGroups(colors[2]) = {} THEN {}
      ELSE {Outcome(SinglesChainRule2Puzzle(P, chain.Candidate, color, solution),
                    "Singles Chain Rule 2",
                    {i \in color : chain.Candidate \in P[i].Candidates} \cup solution)}

\* ScanSinglesChainRule2 on one colouring of one chain: the outcome, if any
SinglesChainRule2On(P, createSteps, chain, colors) ==
  LET colorNum == IF ViolatingGroups(colors[1]) # {} THEN 1 ELSE 2
      color == colors[colorNum]
      solution == colors[3 - colorNum]
      after == SinglesChainRule2Puzzle(P, chain.Candidate, color, solution)
  IN  IF ViolatingGroups(colors[1]) = {} /\ ViolatingGroups(colors[2]) = {} THEN {}
      ELSE {Outcome(IF createSteps THEN ScanSudokuRules(Evaluated(after)) ELSE after,
                    "Singles Chain Rule 2",
                    {i \in color : chain.Candidate \in P[i].Candidates} \cup solution)}

\* SudokuSolver.ScanSinglesChainRule2, from the chain at position k on
RECURSIVE ScanSinglesChainRule2(_, _, _, _)
ScanSinglesChainRule2(P, createSteps, chains, k) ==
  IF k > Len(chains) THEN {}
  ELSE LET hits == UNION {SinglesChainRule2On(P, createSteps, chains[k], colors) :
                            colors \in CompleteColorings(chains[k])}
           passes == \E colors \in CompleteColorings(chains[k]) :
                        SinglesChainRule2On(P, createSteps, chains[k], colors) = {}
       IN  hits \cup (IF passes THEN ScanSinglesChainRule2(P, createSteps, chains, k + 1) ELSE {})

\* a faulty ScanSinglesChainRule4 that takes the candidate from the cells that
\* share a group with a cell of either colour
SinglesChainRule4AnyColor(P, chain, colors) ==
  {i \in Cells :
     /\ CandidateCount(P[i]) > 1
     /\ chain.Candidate \in P[i].Candidates
     /\ \E cell \in colors[1] \cup colors[2] : i \in SharedGroupCells[cell]}

\* ScanSinglesChainRule4: the cells a chain removes its candidate from
SinglesChainRule4Cells(P, chain, colors) ==
  {i \in Cells :
     /\ CandidateCount(P[i]) > 1
     /\ chain.Candidate \in P[i].Candidates
     /\ \E cell1 \in colors[1], cell2 \in colors[2] :
          i \in SharedGroupCells[cell1] \cap SharedGroupCells[cell2]}

\* SudokuSolver.ScanSinglesChainRule4, from the chain at position k on
RECURSIVE ScanSinglesChainRule4(_, _, _, _)
ScanSinglesChainRule4(P, createSteps, chains, k) ==
  IF k > Len(chains) THEN {}
  ELSE LET hitColorings == {colors \in CompleteColorings(chains[k]) :
                              SinglesChainRule4Cells(P, chains[k], colors) # {}}
       IN  {Outcome(EliminateFrom(P, SinglesChainRule4Cells(P, chains[k], colors),
                                  {chains[k].Candidate}),
                    "Singles Chain Rule 4",
                    IF createSteps THEN SinglesChainRule4Cells(P, chains[k], colors) ELSE {})
            : colors \in hitColorings}
           \cup (IF hitColorings # CompleteColorings(chains[k])
                 THEN ScanSinglesChainRule4(P, createSteps, chains, k + 1) ELSE {})

(***************************************************************************)
(* SudokuSuperChain.  CreateSuperChains gives a sequence; its element for  *)
(* one super chain is the set of the super chains the colouring loop can   *)
(* produce, each a record: SinglesChains (a sequence of records Candidate, *)
(* Cells, Colors, with Colors = << >> for a chain the loop never reaches), *)
(* Cells, Candidates and LinkCells.                                        *)
(***************************************************************************)
\* the candidate of a bi-value cell that is not the given one
OtherCandidate(P, cell, candidate) == CHOOSE d \in P[cell].Candidates : d # candidate

\* CreateSuperChains: the bi-value cells of the super chain that only one of
\* its singles chains holds, each of which gets a singles chain of its own
UncolorizedBiValueCells(P, singlesChains) ==
  {i \in UNION {singlesChains[n].Cells : n \in 1 .. Len(singlesChains)} :
     /\ CandidateCount(P[i]) = 2
     /\ Cardinality({n \in 1 .. Len(singlesChains) : i \in singlesChains[n].Cells}) = 1}

\* CreateSuperChains: the singles chain made for such a cell, for its other
\* candidate; the colouring loop settles which colour the cell gets
BiValueCellChain(P, singlesChains, cell) ==
  LET n == CHOOSE n \in 1 .. Len(singlesChains) : cell \in singlesChains[n].Cells
  IN  [Candidate |-> OtherCandidate(P, cell, singlesChains[n].Candidate),
       Links |-> <<{cell}>>, Cells |-> {cell},
       Colorings |-> {<<{cell}, {}>>, <<{}, {cell}>>}]

\* a faulty comparison that never swaps the colours
AlignColorsUnswapped(uncolorized, colorized, linkCell) == uncolorized

\* CreateSuperChains: the colours of an uncolorized chain after the loop
\* compared them with those of a colorized chain at a link cell
AlignColors(uncolorized, colorized, linkCell) ==
  IF (linkCell \in uncolorized[1] /\ linkCell \in colorized[1])
       \/ (linkCell \in uncolorized[2] /\ linkCell \in colorized[2])
  THEN <<uncolorized[2], uncolorized[1]>>
  ELSE uncolorized

\* one pass of the loop that colorizes a super chain: some uncolorized chain
\* takes its colours from some colorized chain that holds one of its link cells
ColorizeSuperPass(singlesChains, linkCells, colors) ==
  LET uncolorized == {n \in 1 .. Len(singlesChains) : colors[n] = << >>}
      colorized == {n \in 1 .. Len(singlesChains) : colors[n] # << >>}
  IN  UNION {UNION {UNION {{[colors EXCEPT ![u] = AlignColors(own, colors[c], linkCell)]
                             : own \in CompleteColorings(singlesChains[u])}
                           : c \in {n \in colorized : linkCell \in singlesChains[n].Cells}}
                    : linkCell \in singlesChains[u].Cells \cap linkCells}
             : u \in uncolorized}

\* the loop that colorizes a super chain, run until no pass assigns a chain
RECURSIVE ColorizeSuper(_, _, _)
ColorizeSuper(singlesChains, linkCells, partial) ==
  LET active == {colors \in partial : ColorizeSuperPass(singlesChains, linkCells, colors) # {}}
  IN  IF active = {} THEN partial
      ELSE ColorizeSuper(singlesChains, linkCells,
             (partial \ active)
               \cup UNION {ColorizeSuperPass(singlesChains, linkCells, colors) : colors \in active})

\* CreateSuperChains, for one merged list of singles chains
CreateSuperChain(P, merged) ==
  LET extra == SortedSeq(UncolorizedBiValueCells(P, merged))
      singlesChains == merged \o [k \in 1 .. Len(extra) |-> BiValueCellChain(P, merged, extra[k])]
      cells == UNION {merged[n].Cells : n \in 1 .. Len(merged)}
      linkCells == {i \in cells : CandidateCount(P[i]) = 2}
      first == {[n \in 1 .. Len(singlesChains) |-> IF n = 1 THEN colors ELSE << >>] :
                  colors \in CompleteColorings(singlesChains[1])}
  IN  {[SinglesChains |-> [n \in 1 .. Len(singlesChains) |->
                             [Candidate |-> singlesChains[n].Candidate,
                              Cells |-> singlesChains[n].Cells,
                              Colors |-> colors[n]]],
        Cells |-> cells,
        Candidates |-> {merged[n].Candidate : n \in 1 .. Len(merged)},
        LinkCells |-> linkCells]
       : colors \in ColorizeSuper(singlesChains, linkCells, first)}

\* SudokuSuperChain.CreateSuperChains
CreateSuperChains(P, allSinglesChains) ==
  LET chains == MergeChains([k \in 1 .. Len(allSinglesChains) |->
                   [Items |-> <<k>>,
                    Cells |-> {i \in allSinglesChains[k].Cells : CandidateCount(P[i]) = 2}]])
      superChains == SelectSeq(chains, LAMBDA chain : Len(chain.Items) > 1)
  IN  [s \in 1 .. Len(superChains) |->
         CreateSuperChain(P, [n \in 1 .. Len(superChains[s].Items) |->
                                 allSinglesChains[superChains[s].Items[n]]])]

\* GenerateSuperChains does not return: a loop that colorizes never ends
SuperChainsHang(superChains) ==
  \E s \in 1 .. Len(superChains) : \E superChain \in superChains[s] :
     \E n \in 1 .. Len(superChain.SinglesChains) : superChain.SinglesChains[n].Colors = << >>

\* the super chains of a set whose colouring ended
Colorized(superChainSet) ==
  {superChain \in superChainSet :
     \A n \in 1 .. Len(superChain.SinglesChains) : superChain.SinglesChains[n].Colors # << >>}

(***************************************************************************)
(* 3D Medusa.  Colours are numbered 1 and 2 for Colors[0] and Colors[1].   *)
(***************************************************************************)
\* the cells of a super chain in which a candidate has a colour
ColoredCandidateCells(superChain, candidate, colorNum) ==
  UNION {superChain.SinglesChains[n].Colors[colorNum] :
           n \in {m \in 1 .. Len(superChain.SinglesChains) :
                    superChain.SinglesChains[m].Candidate = candidate}}

\* the pairs <<cell, candidate>> of a colour of a super chain
ColoredCandidates(superChain, colorNum) ==
  UNION {{<<cell, superChain.SinglesChains[n].Candidate>> :
            cell \in superChain.SinglesChains[n].Colors[colorNum]}
         : n \in 1 .. Len(superChain.SinglesChains)}

\* "the opposite color is the solution": every cell of the solution colour is
\* set to the candidate that has the colour in it.  SetValue raises for a cell
\* in which two candidates have the solution colour
MedusaSolveColor(P, createSteps, superChain, solutionColor, technique) ==
  LET solution == ColoredCandidates(superChain, solutionColor)
      cells == {x[1] : x \in solution}
      after == [i \in Cells |->
                  IF i \in cells
                  THEN LET candidate == (CHOOSE x \in solution : x[1] = i)[2]
                       IN  SetValue(EliminateCandidates(P[i], P[i].Candidates \ {candidate}),
                                    candidate, FALSE)
                  ELSE P[i]]
  IN  IF solution = {} THEN {}
      ELSE IF \E x, y \in solution : x[1] = y[1] /\ x[2] # y[2]
      THEN {NoReturn(P, technique, "raise")}
      ELSE {Outcome(IF createSteps THEN ScanSudokuRules(Evaluated(after)) ELSE after,
                    technique, cells)}

\* the outcomes of a 3D Medusa rule: those it has on the first super chain on
\* which it makes progress, whichever way the super chains were colorized;
\* outcomes[s] holds what the rule does on each colouring of super chain s
Scan3DMedusa(outcomes) ==
  UNION {UNION outcomes[s]
         : s \in {k \in 1 .. Len(outcomes) : \A j \in 1 .. (k - 1) : {} \in outcomes[j]}}

\* Scan3DMedusaRule1 on one super chain: a cell holds two candidates of a colour
Medusa1On(P, createSteps, superChain) ==
  LET Twice(cell, colorNum) ==
        Cardinality({x \in ColoredCandidates(superChain, colorNum) : x[1] = cell}) >= 2
      colorNums == {IF Twice(cell, 1) THEN 1 ELSE 2 :
                      cell \in {c \in superChain.Cells : Twice(c, 1) \/ Twice(c, 2)}}
  IN  UNION {MedusaSolveColor(P, createSteps, superChain, 3 - colorNum, "3D Medusa Rule 1")
             : colorNum \in colorNums}

\* SudokuSolver.Scan3DMedusaRule1
Scan3DMedusaRule1(P, createSteps, superChains) ==
  Scan3DMedusa([s \in 1 .. Len(superChains) |->
                  {Medusa1On(P, createSteps, superChain)
                   : superChain \in Colorized(superChains[s])}])

\* Scan3DMedusaRule2 on one super chain: a group holds a candidate twice in
\* one colour
Medusa2On(P, createSteps, superChain) ==
  LET Twice(candidate, colorNum) ==
        \E g \in AllGroups :
           Cardinality(GroupCells[g] \cap ColoredCandidateCells(superChain, candidate, colorNum)) >= 2
      colorNums == {IF Twice(candidate, 1) THEN 1 ELSE 2 :
                      candidate \in {d \in superChain.Candidates : Twice(d, 1) \/ Twice(d, 2)}}
  IN  UNION {MedusaSolveColor(P, createSteps, superChain, 3 - colorNum, "3D Medusa Rule 2")
             : colorNum \in colorNums}

\* SudokuSolver.Scan3DMedusaRule2
Scan3DMedusaRule2(P, createSteps, superChains) ==
  Scan3DMedusa([s \in 1 .. Len(superChains) |->
                  {Medusa2On(P, createSteps, superChain)
                   : superChain \in Colorized(superChains[s])}])

\* Scan3DMedusaRule3 on one super chain: a cell of three or more candidates
\* holds both colours and loses its candidates that have no colour
Medusa3On(P, createSteps, superChain) ==
  LET Colored(cell) ==
        {x[2] : x \in {y \in ColoredCandidates(superChain, 1) \cup ColoredCandidates(superChain, 2) :
                         y[1] = cell}}
      HasColor(cell, colorNum) == \E x \in ColoredCandidates(superChain, colorNum) : x[1] = cell
  IN  {Outcome([P EXCEPT ![cell] = EliminateCandidates(@, P[cell].Candidates \ Colored(cell))],
               "3D Medusa Rule 3", {cell})
       : cell \in {c \in superChain.Cells :
                     /\ CandidateCount(P[c]) >= 3
                     /\ HasColor(c, 1) /\ HasColor(c, 2)
                     /\ P[c].Candidates \ Colored(c) # {}}}

\* SudokuSolver.Scan3DMedusaRule3
Scan3DMedusaRule3(P, createSteps, superChains) ==
  Scan3DMedusa([s \in 1 .. Len(superChains) |->
                  {Medusa3On(P, createSteps, superChain)
                   : superChain \in Colorized(superChains[s])}])

\* Scan3DMedusaRule4: the cells outside the super chain that see the
\* candidate in both colours
Medusa4Cells(P, superChain, candidate) ==
  {i \in Cells \ superChain.Cells :
     /\ CandidateCount(P[i]) > 1
     /\ candidate \in P[i].Candidates
     /\ \E cell1 \in ColoredCandidateCells(superChain, candidate, 1),
           cell2 \in ColoredCandidateCells(superChain, candidate, 2) :
          i \in SharedGroupCells[cell1] \cap SharedGroupCells[cell2]}

\* Scan3DMedusaRule4 on one super chain: the first candidate that makes progress
Medusa4On(P, createSteps, superChain) ==
  LET candidates == {d \in Digits : Medusa4Cells(P, superChain, d) # {}}
  IN  IF candidates = {} THEN {}
      ELSE {Outcome(EliminateFrom(P, Medusa4Cells(P, superChain, Min(candidates)),
                                  {Min(candidates)}),
                    "3D Medusa Rule 4",
                    IF createSteps THEN Medusa4Cells(P, superChain, Min(candidates)) ELSE {})}

\* SudokuSolver.Scan3DMedusaRule4
Scan3DMedusaRule4(P, createSteps, superChains) ==
  Scan3DMedusa([s \in 1 .. Len(superChains) |->
                  {Medusa4On(P, createSteps, superChain)
                   : superChain \in Colorized(superChains[s])}])

\* Scan3DMedusaRule5: the candidate of the cell that has the colour: that of
\* the last singles chain of the list that holds the cell in the colour, 0 if none
InsideColoredCandidate(P, superChain, cell, colorNum) ==
  LET chains == {n \in 1 .. Len(superChain.SinglesChains) :
                   /\ superChain.SinglesChains[n].Candidate \in P[cell].Candidates
                   /\ cell \in superChain.SinglesChains[n].Colors[colorNum]
                   /\ colorNum = 2 => cell \notin superChain.SinglesChains[n].Colors[1]}
  IN  IF chains = {} THEN 0 ELSE superChain.SinglesChains[Max(chains)].Candidate

\* Scan3DMedusaRule5: the candidates the rule removes from a cell of the
\* super chain
Medusa5Candidates(P, superChain, cell) ==
  LET inside == <<InsideColoredCandidate(P, superChain, cell, 1),
                  InsideColoredCandidate(P, superChain, cell, 2)>>
      insideColoredCandidate == IF inside[1] # 0 THEN inside[1] ELSE inside[2]
      outsideColorNum == IF inside[1] # 0 THEN 2 ELSE 1
  IN  IF CandidateCount(P[cell]) <= 1 \/ (inside[1] = 0) = (inside[2] = 0) THEN {}
      ELSE {d \in P[cell].Candidates \ {insideColoredCandidate} :
              SharedGroupCells[cell] \cap ColoredCandidateCells(superChain, d, outsideColorNum) # {}}

\* Scan3DMedusaRule5 on one super chain
Medusa5On(P, createSteps, superChain) ==
  LET changed == {c \in superChain.Cells : Medusa5Candidates(P, superChain, c) # {}}
  IN  IF changed = {} THEN {}
      ELSE {Outcome([i \in Cells |->
                       IF i \in changed
                       THEN EliminateCandidates(P[i], Medusa5Candidates(P, superChain, i))
                       ELSE P[i]],
                    "3D Medusa Rule 5", IF createSteps THEN changed ELSE {})}

\* SudokuSolver.Scan3DMedusaRule5
Scan3DMedusaRule5(P, createSteps, superChains) ==
  Scan3DMedusa([s \in 1 .. Len(superChains) |->
                  {Medusa5On(P, createSteps, superChain)
                   : superChain \in Colorized(superChains[s])}])

\* Scan3DMedusaRule6 on one super chain: every candidate of a cell outside the
\* super chain sees that candidate in one colour
Medusa6On(P, createSteps, superChain) ==
  LET Emptied(cell, colorNum) ==
        \A d \in P[cell].Candidates :
           SharedGroupCells[cell] \cap ColoredCandidateCells(superChain, d, colorNum) # {}
      colorNums == {IF Emptied(cell, 1) THEN 1 ELSE 2 :
                      cell \in {c \in Cells \ superChain.Cells :
                                  /\ CandidateCount(P[c]) >= 2
                                  /\ Emptied(c, 1) \/ Emptied(c, 2)}}
  IN  UNION {MedusaSolveColor(P, createSteps, superChain, 3 - colorNum, "3D Medusa Rule 6")
             : colorNum \in colorNums}

\* SudokuSolver.Scan3DMedusaRule6
Scan3DMedusaRule6(P, createSteps, superChains) ==
  Scan3DMedusa([s \in 1 .. Len(superChains) |->
                  {Medusa6On(P, createSteps, superChain)
                   : superChain \in Colorized(superChains[s])}])

(***************************************************************************)
(* Wings and the Bi-Value Universal Grave.                                 *)
(***************************************************************************)
\* ScanYWingAndXYZWing: wing1 and wing2 are wings of the link cell
IsWing(P, link, wing1, wing2, numLinkCandidates) ==
  LET wingsSharedCandidates == P[wing1].Candidates \cap P[wing2].Candidates
  IN  /\ CandidateCount(P[wing1]) = 2
      /\ CandidateCount(P[wing2]) = 2
      /\ Groups[wing1] \cap Groups[wing2] = {}
      /\ P[wing1].Candidates # P[wing2].Candidates
      /\ Cardinality(P[wing1].Candidates \cap P[link].Candidates) = numLinkCandidates - 1
      /\ Cardinality(P[wing2].Candidates \cap P[link].Candidates) = numLinkCandidates - 1
      /\ Cardinality(wingsSharedCandidates) = 1
      /\ IF numLinkCandidates = 2
         THEN wingsSharedCandidates \cap P[link].Candidates = {}
         ELSE wingsSharedCandidates \subseteq P[link].Candidates

\* ScanYWingAndXYZWing: the cells the wing removes the wing candidate from
WingChangedCells(P, link, wing1, wing2, numLinkCandidates) ==
  {i \in (SharedGroupCells[wing1] \cap SharedGroupCells[wing2]) \ {link} :
     /\ numLinkCandidates = 3 => i \in SharedGroupCells[link]
     /\ CandidateCount(P[i]) > 1
     /\ P[i].Candidates \cap P[wing1].Candidates \cap P[wing2].Candidates # {}}

\* ScanYWingAndXYZWing: the pairs of wings of a link cell that make progress
Wings(P, link, numLinkCandidates) ==
  LET biValue == {i \in SharedGroupCells[link] : CandidateCount(P[i]) = 2}
  IN  {w \in biValue \X biValue :
         /\ w[1] < w[2]
         /\ IsWing(P, link, w[1], w[2], numLinkCandidates)
         /\ WingChangedCells(P, link, w[1], w[2], numLinkCandidates) # {}}

\* SudokuSolver.ScanYWingAndXYZWing: the pairs of wings are taken from a set, so
\* any pair of the first link cell that has one may come first
ScanYWingAndXYZWing(P, createSteps, numLinkCandidates) ==
  LET links == {i \in Cells : /\ CandidateCount(P[i]) = numLinkCandidates
                              /\ Wings(P, i, numLinkCandidates) # {}}
  IN  IF links = {} THEN {}
      ELSE LET link == Min(links)
           IN  {LET changed == WingChangedCells(P, link, w[1], w[2], numLinkCandidates)
                IN  Outcome(EliminateFrom(P, changed, P[w[1]].Candidates \cap P[w[2]].Candidates),
                            IF numLinkCandidates = 2 THEN "Y-Wing" ELSE "XYZ-Wing", changed)
                : w \in Wings(P, link, numLinkCandidates)}

\* ScanWXYZWing: the cells of `cells` that hold the candidate
CandidateCells(P, cells, candidate) == {i \in cells : candidate \in P[i].Candidates}

\* ScanWXYZWing: the candidate is a non-restricted common digit of `cells`:
\* two of the cells that hold it do not share a group
NonRestricted(P, cells, candidate) ==
  \E cell1, cell2 \in CandidateCells(P, cells, candidate) :
     cell1 # cell2 /\ cell1 \notin SharedGroupCells[cell2]

\* ScanWXYZWing: the cells a wing removes its non-restricted common digit from
WXYZChangedCells(P, cells) ==
  LET candidates == UNION {P[i].Candidates : i \in cells}
      nrcd == CHOOSE d \in candidates : NonRestricted(P, cells, d)
  IN  {i \in Cells : /\ \A c \in CandidateCells(P, cells, nrcd) : i \in SharedGroupCells[c]
                     /\ CandidateCount(P[i]) > 1
                     /\ nrcd \in P[i].Candidates}

\* ScanWXYZWing: the four cells form a WXYZ-Wing
IsWXYZWing(P, cells) ==
  LET candidates == UNION {P[i].Candidates : i \in cells}
  IN  /\ Cardinality(candidates) = 4
      /\ \A d \in candidates : Cardinality(CandidateCells(P, cells, d)) >= 2
      /\ Cardinality({d \in candidates : NonRestricted(P, cells, d)}) = 1

\* the four-cell subsets of possibleCells that hold four candidates together,
\* built one cell at a time in increasing order
WXYZCombinations(P, possibleCells) ==
  LET Fits(chosen, i) ==
        Cardinality(P[i].Candidates \cup UNION {P[j].Candidates : j \in chosen}) <= 4
      Next1(chosen, last) == {i \in possibleCells : i > last /\ Fits(chosen, i)}
  IN  UNION {UNION {UNION {{{a, b, c, d} : d \in Next1({a, b, c}, c)}
                           : c \in Next1({a, b}, b)}
                    : b \in Next1({a}, a)}
             : a \in possibleCells}

\* ScanWXYZWing: the wings of a box and a row or column that make progress
WXYZWings(P, box, rowcol) ==
  LET possibleCells == {i \in GroupCells[box] \cup GroupCells[rowcol] :
                          2 <= CandidateCount(P[i]) /\ CandidateCount(P[i]) <= 4}
  IN  {cells \in WXYZCombinations(P, possibleCells) :
         IsWXYZWing(P, cells) /\ WXYZChangedCells(P, cells) # {}}

\* SudokuSolver.ScanWXYZWing: the combinations of four cells are taken from a
\* set, so any wing of the first box and line that have one may come first
ScanWXYZWing(P, createSteps) ==
  LET hits == {br \in Boxes \X (Rows \cup Columns) : WXYZWings(P, br[1], br[2]) # {}}
  IN  IF hits = {} THEN {}
      ELSE LET br == MinPair(hits)
           IN  {LET nrcd == CHOOSE d \in UNION {P[i].Candidates : i \in cells} :
                                NonRestricted(P, cells, d)
                IN  Outcome(EliminateFrom(P, WXYZChangedCells(P, cells), {nrcd}),
                            "WXYZ-Wing", WXYZChangedCells(P, cells))
                : cells \in WXYZWings(P, br[1], br[2])}

\* SudokuSolver.ScanBiValueUniversalGrave: the candidates of the BUG cell are
\* taken from a set, so any candidate that passes the count may come first
ScanBiValueUniversalGrave(P, createSteps) ==
  LET bugCells == {i \in Cells : CandidateCount(P[i]) = 3}
  IN  IF (\E i \in Cells : CandidateCount(P[i]) > 3) \/ Cardinality(bugCells) # 1 THEN {}
      ELSE LET bugCell == CHOOSE i \in bugCells : TRUE
           IN  {Outcome([P EXCEPT ![bugCell] = SetValue(@, candidate, FALSE)],
                        "Bi-Value Universal Grave", {bugCell})
                : candidate \in
                    {d \in P[bugCell].Candidates :
                       \A g \in Groups[bugCell] :
                          Cardinality(GetCellsWithCandidate(P, g, d)) = 3}}

(***************************************************************************)
(* XY-Chain.  The chain is kept as its first cell, its last cell and the   *)
(* set of its cells, which is all the examiner reads of it.                *)
(***************************************************************************)
\* recursiveXYChainExaminer: the cells a complete chain removes the
\* unconnected candidate from
XYChainChangedCells(P, unconnectedCandidate, first, last, chain) ==
  {i \in (SharedGroupCells[last] \cap SharedGroupCells[first]) \ chain :
     IsCandidate(P[i], unconnectedCandidate)}

\* SudokuSolver.recursiveXYChainExaminer: the next cell of the chain is taken
\* from a set, so the search may reach first any complete chain that makes
\* progress and has no shorter start that does
RECURSIVE recursiveXYChainExaminer(_, _, _, _, _, _, _)
recursiveXYChainExaminer(P, createSteps, unconnectedCandidate, linkCandidate, first, last, chain) ==
  LET changed == XYChainChangedCells(P, unconnectedCandidate, first, last, chain)
  IN  IF Cardinality(chain) >= 2 /\ linkCandidate = unconnectedCandidate /\ changed # {}
      THEN {Outcome(EliminateFrom(P, changed, {unconnectedCandidate}), "XY-Chain",
                    IF createSteps THEN changed ELSE {})}
      ELSE UNION {recursiveXYChainExaminer(P, createSteps, unconnectedCandidate,
                                           CHOOSE d \in P[cell].Candidates : d # linkCandidate,
                                           first, cell, chain \cup {cell})
                  : cell \in {i \in SharedGroupCells[last] \ chain :
                                CandidateCount(P[i]) = 2 /\ linkCandidate \in P[i].Candidates}}

\* SudokuSolver.ScanXYChain: the start cell and its unconnected candidate are
\* taken from sets
ScanXYChain(P, createSteps) ==
  UNION {recursiveXYChainExaminer(P, createSteps, unconnectedCandidate,
                                  CHOOSE d \in P[startCell].Candidates : d # unconnectedCandidate,
                                  startCell, startCell, {startCell})
         : <<startCell, unconnectedCandidate>> \in
             {sc \in Cells \X Digits :
                CandidateCount(P[sc[1]]) = 2 /\ sc[2] \in P[sc[1]].Candidates}}

(***************************************************************************)
(* X-Cycle.  A chain is the sequence of its cells; link k of a closed      *)
(* chain joins chain[k] and chain[k + 1], and the code's pattern[i] is the *)
(* link i + 1.                                                             *)
(***************************************************************************)
\* allStrongLinks of a candidate: the links of its singles chains, in order
RECURSIVE AllStrongLinks(_, _, _)
AllStrongLinks(singlesChains, candidate, k) ==
  IF k > Len(singlesChains) THEN << >>
  ELSE (IF singlesChains[k].Candidate = candidate THEN singlesChains[k].Links ELSE << >>)
         \o AllStrongLinks(singlesChains, candidate, k + 1)

\* the pattern of a closed chain, before the examiner rewrites it: TRUE for a
\* strong link; the index i counts from 0 and wraps around
Pattern(strong, chain, i) ==
  LET k == (i % (Len(chain) - 1)) + 1
  IN  {chain[k], chain[k + 1]} \in strong

\* the pairs of back-to-back weak links the scan of the pattern meets (i is
\* the second link of the pair)
BackToBackWeakLinks(strong, chain) ==
  {i \in 1 .. (Len(chain) - 2) : ~Pattern(strong, chain, i) /\ ~Pattern(strong, chain, i - 1)}

\* rule 2: the index of the last strong link of the first series of strong
\* links that is even in number, looking twice around the loop
LastOfEvenSeries(strong, chain) ==
  LET n == Len(chain) - 1
      weak == {i \in 0 .. (2 * n - 1) : ~Pattern(strong, chain, i)}
      Series(i) == i - Max({w \in weak : w < i} \cup {-1}) - 1
  IN  (Min({i \in weak : Series(i) % 2 = 0}) + n - 1) % n

\* the links at the positions index, index + 2, ... of the loop are strong,
\* up to the position index + last
Alternates(strong, chain, index, first, last) ==
  \A j \in first .. last : (j - first) % 2 = 0 => Pattern(strong, chain, index + j)

\* rule 1: the cells that see both cells of a weak link from outside the loop
XCycleRule1Cells(P, candidate, strong, chain) ==
  LET n == Len(chain) - 1
      loop == {chain[k] : k \in 1 .. n}
  IN  {i \in Cells \ loop :
         /\ CandidateCount(P[i]) >= 2
         /\ candidate \in P[i].Candidates
         /\ \E k \in 1 .. n :
              /\ {chain[k], chain[k + 1]} \notin strong
              /\ i \in SharedGroupCells[chain[k]] \cap SharedGroupCells[chain[k + 1]]}

\* recursiveNiceLoopExaminer on a closed chain of five or more cells: what the
\* examiner does with the nice loop, if it is one and makes progress
ExamineNiceLoop(P, createSteps, candidate, strong, chain) ==
  LET n == Len(chain) - 1
      backToBack == BackToBackWeakLinks(strong, chain)
      i == Min(backToBack)
      index == LastOfEvenSeries(strong, chain)
      solved == [P EXCEPT ![chain[index + 1]] =
                   SetValue(EliminateCandidates(@, @.Candidates \ {candidate}), candidate, FALSE)]
  IN  IF \/ Cardinality(backToBack) >= 2
         \/ backToBack # {} /\ n % 2 # 1
         \/ \A k \in 0 .. (n - 1) : Pattern(strong, chain, k)
      THEN {}
      ELSE IF n % 2 = 0
      THEN IF Alternates(strong, chain, 0, 0, n - 1)
              /\ XCycleRule1Cells(P, candidate, strong, chain) # {}
           THEN {Outcome(EliminateFrom(P, XCycleRule1Cells(P, candidate, strong, chain),
                                       {candidate}),
                         "X-Cycle", XCycleRule1Cells(P, candidate, strong, chain))}
           ELSE {}
      ELSE IF backToBack # {}
      THEN IF Alternates(strong, chain, i, 1, n - 1)
           THEN {Outcome([P EXCEPT ![chain[i + 1]] = EliminateCandidate(@, candidate)],
                         "X-Cycle", {chain[i + 1]})}
           ELSE {}
      ELSE IF Alternates(strong, chain, index, 0, n - 1)
           THEN {Outcome(IF createSteps THEN ScanSudokuRules(Evaluated(solved)) ELSE solved,
                         "X-Cycle", {chain[index + 1]})}
           ELSE {}

\* SudokuSolver.recursiveNiceLoopExaminer: the next cell of the chain is taken
\* from a set, so the search may reach first any nice loop that makes progress.
\* A closed chain that makes none is not extended here: it holds its first
\* cell again, so no extension of it is ever closed
RECURSIVE recursiveNiceLoopExaminer(_, _, _, _, _, _, _)
recursiveNiceLoopExaminer(P, createSteps, candidate, allCandidateCells, strong, chain, backToBackWeakLinksCount) ==
  LET n == Len(chain)
      count == IF /\ n >= 3
                  /\ {chain[n], chain[n - 1]} \notin strong
                  /\ {chain[n - 1], chain[n - 2]} \notin strong
               THEN backToBackWeakLinksCount + 1 ELSE backToBackWeakLinksCount
  IN  IF count >= 2 THEN {}
      ELSE IF chain[n] = chain[1]
      THEN IF n < 5 THEN {}
           ELSE ExamineNiceLoop(P, createSteps, candidate, strong, chain)
      ELSE UNION {recursiveNiceLoopExaminer(P, createSteps, candidate, allCandidateCells,
                                            strong, Append(chain, cell), count)
                  : cell \in {c \in (allCandidateCells \cap SharedGroupCells[chain[n]])
                                      \ SharedGroupCells[chain[n - 1]] :
                                \A k \in 2 .. n : chain[k] # c}}

\* the loop of ScanXCycle over the starting strong links of a candidate, from
\* position k on; the two cells of a link come out of a set in either order
RECURSIVE ScanXCycleLinks(_, _, _, _, _, _)
ScanXCycleLinks(P, createSteps, candidate, allCandidateCells, allStrongLinks, k) ==
  IF k > Len(allStrongLinks) THEN {}
  ELSE LET strong == {allStrongLinks[m] : m \in 1 .. Len(allStrongLinks)}
           found == UNION {recursiveNiceLoopExaminer(P, createSteps, candidate,
                             allCandidateCells, strong, chain, 0)
                           : chain \in {c \in Seq2(allStrongLinks[k]) : c[1] # c[2]}}
       IN  IF found # {} THEN found
           ELSE ScanXCycleLinks(P, createSteps, candidate, allCandidateCells,
                                allStrongLinks, k + 1)

\* SudokuSolver.ScanXCycle, from the given candidate on
RECURSIVE ScanXCycle(_, _, _, _)
ScanXCycle(P, createSteps, singlesChains, candidate) ==
  IF candidate > 9 THEN {}
  ELSE LET found == ScanXCycleLinks(P, createSteps, candidate,
                                    {i \in Cells : IsCandidate(P[i], candidate)},
                                    AllStrongLinks(singlesChains, candidate, 1), 1)
       IN  IF found # {} THEN found
           ELSE ScanXCycle(P, createSteps, singlesChains, candidate + 1)

(***************************************************************************)
(* Unique Rectangle.                                                       *)
(***************************************************************************)
\* the rectangles ScanUniqueRectangle looks at, in the order of its loops over
\* the pairs of rows and of columns: <<row1, row2, col1, col2>> with either the
\* rows or the columns in the same line of boxes, but not both nor none
Rectangles ==
  LET codes == SortedSeq({c \in 0 .. 80 : (c \div 9) < (c % 9)})
      pairs == [k \in 1 .. 36 |-> <<codes[k] \div 9, codes[k] % 9>>] @@ << >>
      all == [k \in 1 .. (36 * 36) |->
                <<pairs[((k - 1) \div 36) + 1][1], pairs[((k - 1) \div 36) + 1][2],
                  pairs[((k - 1) % 36) + 1][1], pairs[((k - 1) % 36) + 1][2]>>] @@ << >>
      TwoBoxes(r) == ((r[1] \div 3) = (r[2] \div 3)) # ((r[3] \div 3) = (r[4] \div 3))
  IN  SelectSeq(all, TwoBoxes)

RectangleCells(r) == {r[1] * 9 + r[3], r[1] * 9 + r[4], r[2] * 9 + r[3], r[2] * 9 + r[4]}

\* the orders in which a loop can take the elements of a set
RECURSIVE Orders(_)
Orders(S) ==
  IF S = {} THEN {<< >>}
  ELSE UNION {{<<x>> \o s : s \in Orders(S \ {x})} : x \in S}

\* Rule 3 in one group, for the rectangle ur (its cells, its candidates, the
\* unshared candidates): the board after the eliminations and the cells
\* changed.  Every lock cell of the group is found before the first elimination,
\* and a lock cell is spared only by itself
UniqueRectangleRule3In(P, ur, g) ==
  LET lockCells == {i \in GroupCells[g] \ ur.cells : P[i].Candidates = ur.candidates}
      from == IF lockCells = {} THEN {}
              ELSE {i \in GroupCells[g] \ ur.cells :
                      CandidateCount(P[i]) >= 2 /\ lockCells # {i}}
  IN  {[P |-> Evaluated(EliminateFrom(P, from, ur.candidates)),
        Changed |-> ChangedBy(P, from, ur.candidates)]}

\* Rule 3 with triple pseudo-cells in one group; lCells[0] and lCells[1] are
\* any two of the lock cells
UniqueRectangleTripleIn(P, ur, g) ==
  LET lockCells == {i \in GroupCells[g] \ ur.cells :
                      /\ P[i].Candidates \cap ur.candidates # {}
                      /\ Cardinality(P[i].Candidates \ ur.allNonBiValueCellCandidates) = 1
                      /\ P[i].Candidates \cap ur.urCandidates = {}}
      from == {i \in (GroupCells[g] \ ur.cells) \ lockCells : CandidateCount(P[i]) >= 2}
  IN  IF Cardinality(lockCells) <= 1 THEN {[P |-> P, Changed |-> {}]}
      ELSE {IF /\ ur.candidates \subseteq P[lCells[1]].Candidates
               /\ Cardinality((P[lCells[1]].Candidates \cap P[lCells[2]].Candidates)
                                \ ur.candidates) = 1
            THEN [P |-> Evaluated(EliminateFrom(P, from, ur.candidates)),
                  Changed |-> ChangedBy(P, from, ur.candidates)]
            ELSE [P |-> P, Changed |-> {}]
            : lCells \in {l \in Seq2(lockCells) : l[1] # l[2]}}

\* the loop of Rule 3 over the groups the two non-bi-value cells share, taken in
\* the order `groups` from position k on, with the cells changed so far
RECURSIVE UniqueRectangleRule3Loop(_, _, _, _, _)
UniqueRectangleRule3Loop(P, changed, ur, groups, k) ==
  IF k > Len(groups) THEN {[P |-> P, Changed |-> changed]}
  ELSE UNION {UniqueRectangleRule3Loop(r.P, changed \cup r.Changed, ur, groups, k + 1)
              : r \in IF ur.triple THEN UniqueRectangleTripleIn(P, ur, groups[k])
                      ELSE UniqueRectangleRule3In(P, ur, groups[k])}

\* what ScanUniqueRectangle does with the rectangle of the four cells `cells`;
\* an outcome with End = "false" stands for going on to the next rectangle
UniqueRectangleOn(P, createSteps, cells) ==
  LET technique == "Unique Rectangle"
      biValueCells == {i \in cells : CandidateCount(P[i]) = 2}
      urCandidates == P[CHOOSE i \in biValueCells : TRUE].Candidates
      nonBiValueCells == cells \ biValueCells
      none == {NoReturn(P, technique, "false")}
      cell1 == CHOOSE i \in nonBiValueCells : TRUE
      cell2 == CHOOSE i \in nonBiValueCells : i # cell1
      sharedGroups == Groups[cell1] \cap Groups[cell2]
      \* Rule 2
      rule2 == CandidateCount(P[cell1]) = 3 /\ P[cell1].Candidates = P[cell2].Candidates
      rule2Cells == {i \in SharedGroupCells[cell1] \cap SharedGroupCells[cell2] :
                       /\ CandidateCount(P[i]) >= 2
                       /\ P[i].Candidates \cap (P[cell1].Candidates \ urCandidates) # {}}
      \* Rule 3
      candidates == (P[cell1].Candidates \cup P[cell2].Candidates) \ urCandidates
      ur == [cells |-> cells, urCandidates |-> urCandidates, candidates |-> candidates,
             allNonBiValueCellCandidates |-> P[cell1].Candidates \cup P[cell2].Candidates,
             triple |-> ~(CandidateCount(P[cell1]) = 3 /\ CandidateCount(P[cell2]) = 3)]
      rule3 == IF Cardinality(candidates) # 2 THEN {}
               ELSE UNION {UniqueRectangleRule3Loop(P, {}, ur, groups, 1)
                           : groups \in Orders(sharedGroups)}
      \* Rule 4
      Twice(g) == {d \in urCandidates : Cardinality(GetCellsWithCandidate(P, g, d)) = 2}
      rule4 == {Outcome(EliminateFrom(P, nonBiValueCells, urCandidates \ {Min(Twice(g))}),
                        technique, nonBiValueCells)
                : g \in {h \in sharedGroups : Twice(h) # {}}}
      \* Hidden Unique Rectangle Rule 1
      biValueCell == CHOOSE i \in biValueCells : TRUE
      oppositeCell == CHOOSE i \in cells : i \notin SharedGroupCells[biValueCell] /\ i # biValueCell
      strongLinkCandidates ==
        {d \in urCandidates :
           /\ Cardinality(GetCellsWithCandidate(P, RowOf(oppositeCell), d)) = 2
           /\ Cardinality(GetCellsWithCandidate(P, ColumnOf(oppositeCell), d)) = 2}
  IN  IF \/ \E i \in cells : CandidateCount(P[i]) < 2
         \/ biValueCells = {}
         \/ \E i \in biValueCells : P[i].Candidates # urCandidates
         \/ \E i \in cells : ~(urCandidates \subseteq P[i].Candidates)
         \/ Cardinality(biValueCells) = 4
      THEN none
      ELSE IF Cardinality(biValueCells) = 3
      THEN {Outcome(EliminateFrom(P, nonBiValueCells, urCandidates), technique, nonBiValueCells)}
      ELSE IF Cardinality(biValueCells) = 2
      THEN IF rule2 /\ rule2Cells # {}
           THEN {Outcome(EliminateFrom(P, rule2Cells, P[cell1].Candidates \ urCandidates),
                         technique, rule2Cells)}
           ELSE {Outcome(r.P, technique, IF createSteps THEN r.Changed ELSE {})
                 : r \in {q \in rule3 : q.Changed # {}}}
                \cup (IF rule3 # {} /\ (\A q \in rule3 : q.Changed # {}) THEN {}
                      ELSE IF rule4 # {} THEN rule4
                      \* Hidden Unique Rectangle Rule 2 follows, and never applies:
                      \* it passes over the cells that share a group, and the
                      \* cells that share none have no group to look at
                      ELSE none)
      ELSE IF strongLinkCandidates # {}
      THEN {Outcome([P EXCEPT ![oppositeCell] =
                       EliminateCandidates(@, urCandidates \ {Min(strongLinkCandidates)})],
                    technique, {oppositeCell})}
      ELSE none

\* SudokuSolver.ScanUniqueRectangle: the outcomes of the rectangles up to the
\* first one that cannot be passed over; the outcome with End = "false" is
\* the return of False
ScanUniqueRectangle(P, createSteps) ==
  LET On(k) == UniqueRectangleOn(P, createSteps, RectangleCells(Rectangles[k]))
      last == {k \in 1 .. Len(Rectangles) : \A o \in On(k) : o.End # "false"}
  IN  IF last = {} THEN {NoReturn(P, "Unique Rectangle", "false")}
      ELSE UNION {{o \in On(k) : o.End # "false"} : k \in 1 .. Min(last)}

(***************************************************************************)
(* The solver driver.                                                      *)
(***************************************************************************)
\* SudokuSolver.OrderedTechniques
OrderedTechniques ==
  << "Naked Single", "Hidden Single", "Pointing Pair", "Pointing Triplet", "Naked Pair",
     "Hidden Pair", "Naked Triplet", "Hidden Triplet", "Naked Quad", "Hidden Quad",
     "Naked Quint", "X-Wing", "Singles Chain Rule 2", "Singles Chain Rule 4", "Swordfish",
     "Y-Wing", "XYZ-Wing", "Bi-Value Universal Grave", "XY-Chain",
     "3D Medusa Rule 1", "3D Medusa Rule 2", "3D Medusa Rule 3", "3D Medusa Rule 4",
     "3D Medusa Rule 5", "3D Medusa Rule 6", "Jellyfish", "Unique Rectangle", "X-Cycle",
     "WXYZ-Wing" >>

\* the place of a technique in OrderedTechniques
Position(technique) ==
  CHOOSE k \in 1 .. Len(OrderedTechniques) : OrderedTechniques[k] = technique

\* SudokuSolver.UseTechnique; SinglesChains and SuperChains are the caches the
\* chain techniques fill on first use (GenerateSinglesChains, GenerateSuperChains)
UseTechnique(technique, P, createSteps, SinglesChains, SuperChains) ==
  CASE technique = "Naked Single" -> ScanNakedSingle(P, createSteps)
    [] technique = "Hidden Single" -> ScanHiddenSingle(P, createSteps)
    [] technique = "Pointing Pair" -> ScanPointingCombo(P, createSteps, 2)
    [] technique = "Pointing Triplet" -> ScanPointingCombo(P, createSteps, 3)
    [] technique = "Naked Pair" -> ScanNakedCombo(P, createSteps, 2)
    [] technique = "Hidden Pair" -> ScanHiddenCombo(P, createSteps, 2)
    [] technique = "Naked Triplet" -> ScanNakedCombo(P, createSteps, 3)
    [] technique = "Hidden Triplet" -> ScanHiddenCombo(P, createSteps, 3)
    [] technique = "Naked Quad" -> ScanNakedCombo(P, createSteps, 4)
    [] technique = "Hidden Quad" -> ScanHiddenCombo(P, createSteps, 4)
    [] technique = "Naked Quint" -> ScanNakedCombo(P, createSteps, 5)
    [] technique = "X-Wing" -> ScanXWingOrSwordfishOrJellyfish(P, createSteps, 2)
    [] technique = "Singles Chain Rule 2" ->
         (IF SinglesChainsHang(SinglesChains) THEN {NoReturn(P, technique, "hang")} ELSE {})
           \cup ScanSinglesChainRule2(P, createSteps, SinglesChains, 1)
    [] technique = "Singles Chain Rule 4" -> ScanSinglesChainRule4(P, createSteps, SinglesChains, 1)
    [] technique = "Swordfish" -> ScanXWingOrSwordfishOrJellyfish(P, createSteps, 3)
    [] technique = "Y-Wing" -> ScanYWingAndXYZWing(P, createSteps, 2)
    [] technique = "XYZ-Wing" -> ScanYWingAndXYZWing(P, createSteps, 3)
    [] technique = "Bi-Value Universal Grave" -> ScanBiValueUniversalGrave(P, createSteps)
    [] technique = "XY-Chain" -> ScanXYChain(P, createSteps)
    [] technique = "3D Medusa Rule 1" ->
         (IF SuperChainsHang(SuperChains) THEN {NoReturn(P, technique, "hang")} ELSE {})
           \cup Scan3DMedusaRule1(P, createSteps, SuperChains)
    [] technique = "3D Medusa Rule 2" -> Scan3DMedusaRule2(P, createSteps, SuperChains)
    [] technique = "3D Medusa Rule 3" -> Scan3DMedusaRule3(P, createSteps, SuperChains)
    [] technique = "3D Medusa Rule 4" -> Scan3DMedusaRule4(P, createSteps, SuperChains)
    [] technique = "3D Medusa Rule 5" -> Scan3DMedusaRule5(P, createSteps, SuperChains)
    [] technique = "3D Medusa Rule 6" -> Scan3DMedusaRule6(P, createSteps, SuperChains)
    [] technique = "Unique Rectangle" -> ScanUniqueRectangle(P, createSteps)
    [] technique = "X-Cycle" -> ScanXCycle(P, createSteps, SinglesChains, 1)
    [] technique = "WXYZ-Wing" -> ScanWXYZWing(P, createSteps)
    [] technique = "Jellyfish" -> ScanXWingOrSwordfishOrJellyfish(P, createSteps, 4)
    [] OTHER -> {}

\* a faulty loop of SolveNextStep that does not stop at the first technique
\* that makes progress
RECURSIVE AnyProgress(_, _, _, _, _)
AnyProgress(P, createSteps, k, SinglesChains, SuperChains) ==
  IF k > Len(OrderedTechniques) THEN {}
  ELSE {o \in UseTechnique(OrderedTechniques[k], P, createSteps, SinglesChains, SuperChains) :
          o.End # "false"}
         \cup AnyProgress(P, createSteps, k + 1, SinglesChains, SuperChains)

\* the loop of SolveNextStep over OrderedTechniques, from position k on: the
\* outcomes of the first technique that returns True (or raises); a technique
\* returns False when it has no outcome or the outcome with End = "false"
RECURSIVE FirstProgress(_, _, _, _, _)
FirstProgress(P, createSteps, k, SinglesChains, SuperChains) ==
  IF k > Len(OrderedTechniques) THEN {}
  ELSE LET Returned(outcomes) ==
             {o \in outcomes : o.End # "false"}
               \cup (IF outcomes = {} \/ \E o \in outcomes : o.End = "false"
                     THEN FirstProgress(P, createSteps, k + 1, SinglesChains, SuperChains)
                     ELSE {})
       IN  Returned(UseTechnique(OrderedTechniques[k], P, createSteps,
                                 SinglesChains, SuperChains))

\* a faulty AddStep whose steps share the live board instead of owning a copy
AddStepAliased(steps, createSteps, o) ==
  IF createSteps
  THEN [k \in 1 .. Len(steps) |-> [steps[k] EXCEPT !.Puzzle = o.P]]
         \o << [Technique |-> o.Technique, Puzzle |-> o.P, ChangedCells |-> o.ChangedCells] >>
  ELSE steps

\* SudokuSolver.AddStep: the step log after the technique's call of AddStep
AddStep(steps, createSteps, o) ==
  IF createSteps
  THEN Append(steps, [Technique |-> o.Technique, Puzzle |-> o.P, ChangedCells |-> o.ChangedCells])
  ELSE steps

\* a faulty end of SolveNextStep that records a step though no technique
\* made progress
NoProgressLogged(cleared, steps) ==
  [P |-> cleared,
   Steps |-> Append(steps, [Technique |-> "none", Puzzle |-> cleared, ChangedCells |-> {}]),
   Return |-> "false", Technique |-> "none", AtReturn |-> cleared]

\* a faulty no-progress return that reports progress
NoProgressReturnsTrue(cleared, steps) ==
  [P |-> cleared, Steps |-> steps, Return |-> "true", Technique |-> "none", AtReturn |-> cleared]

\* SolveNextStep when no technique made progress: it returns False at once
NoProgress(cleared, steps) ==
  [P |-> cleared, Steps |-> steps, Return |-> "false", Technique |-> "none",
   AtReturn |-> cleared]

\* the end of SolveNextStep after a technique returned True: ScanSudokuRules,
\* AddStep and CheckForConflicts, on the board `propagated` that ScanSudokuRules
\* left
AfterTechnique(steps, createSteps, o, propagated) ==
  [P |-> MarkConflicts(propagated),
   Steps |-> AddStep(steps, createSteps, o),
   Return |-> IF CheckForConflicts(propagated) THEN "false" ELSE "true",
   Technique |-> o.Technique, AtReturn |-> o.P]

\* the results of SolveNextStep from the outcomes of its loop over the techniques
StepResults(cleared, steps, createSteps, outcomes) ==
  IF outcomes = {}
  THEN {NoProgress(cleared, steps)}
  ELSE {IF o.End # "return"
        THEN [P |-> o.P, Steps |-> steps, Return |-> o.End,
              Technique |-> o.Technique, AtReturn |-> o.P]
        ELSE AfterTechnique(steps, createSteps, o, ScanSudokuRules(o.P))
        : o \in outcomes}

\* GenerateSinglesChains was called and returned in a SolveNextStep with the
\* result r: the loop over the techniques came to Singles Chain Rule 2, the
\* first technique that calls it, and the chain builder did not hang there
SinglesChainsBuilt(r) ==
  /\ r.Technique = "none" \/ Position(r.Technique) >= Position("Singles Chain Rule 2")
  /\ ~(r.Return = "hang" /\ r.Technique = "Singles Chain Rule 2")

\* the result r of SolveNextStep with Puzzle.SinglesChains as the call leaves
\* it: the chains its techniques read, or None (Built is FALSE) if no
\* technique asked for them
WithCache(r, singlesChains) ==
  [P |-> r.P, Steps |-> r.Steps, Return |-> r.Return, Technique |-> r.Technique,
   AtReturn |-> r.AtReturn,
   SinglesChains |-> [Built |-> SinglesChainsBuilt(r),
                      Chains |-> IF SinglesChainsBuilt(r) THEN singlesChains ELSE << >>]]

\* SolveNextStep's loop with the singles chains that GenerateSinglesChains
\* builds on first use after the reset, and the super chains built from them
TryTechniquesWith(cleared, steps, createSteps, singlesChains) ==
  {WithCache(r, singlesChains) :
     r \in StepResults(cleared, steps, createSteps,
                       FirstProgress(cleared, createSteps, 1, singlesChains,
                                     CreateSuperChains(cleared, singlesChains)))}

\* a faulty SolveNextStep that does not set Puzzle.SinglesChains to None: its
\* techniques read the chains built on the board Setup loaded
TryTechniquesUncleared(cleared, steps, createSteps) ==
  TryTechniquesWith(cleared, steps, createSteps, CreateAllSinglesChains(steps[1].Puzzle, 1))

\* SolveNextStep after it cleared the caches and the step-eliminated candidates
TryTechniques(cleared, steps, createSteps) ==
  TryTechniquesWith(cleared, steps, createSteps, CreateAllSinglesChains(cleared, 1))

\* SudokuSolver.SolveNextStep: the results the call can have; Return is
\* "true", "false", "raise" or "hang", Technique the technique that returned
\* True ("none" if none did) and AtReturn the puzzle when it returned
SolveNextStep(P, steps, createSteps) ==
  TryTechniques(ClearStepEliminatedCandidates(P), steps, createSteps)

(***************************************************************************)
(* Input puzzles.                                                          *)
(***************************************************************************)
\* the classic easy puzzle (scenario "Trivial")
Trivial ==
  << "5","3",".",".","7",".",".",".",".",
     "6",".",".","1","9","5",".",".",".",
     ".","9","8",".",".",".",".","6",".",
     "8",".",".",".","6",".",".",".","3",
     "4",".",".","8",".","3",".",".","1",
     "7",".",".",".","2",".",".",".","6",
     ".","6",".",".",".",".","2","8",".",
     ".",".",".","4","1","9",".",".","5",
     ".",".",".",".","8",".",".","7","9" >>

\* the solution of Trivial given as the input: all 81 cells are givens
Complete ==
  << "5","3","4","6","7","8","9","1","2",
     "6","7","2","1","9","5","3","4","8",
     "1","9","8","3","4","2","5","6","7",
     "8","5","9","7","6","1","4","2","3",
     "4","2","6","8","5","3","7","9","1",
     "7","1","3","9","2","4","8","5","6",
     "9","6","1","5","3","7","2","8","4",
     "2","8","7","4","1","9","6","3","5",
     "3","4","5","2","8","6","1","7","9" >>

\* a full grid whose last row holds 5 twice
CompleteDuplicate ==
  << "5","3","4","6","7","8","9","1","2",
     "6","7","2","1","9","5","3","4","8",
     "1","9","8","3","4","2","5","6","7",
     "8","5","9","7","6","1","4","2","3",
     "4","2","6","8","5","3","7","9","1",
     "7","1","3","9","2","4","8","5","6",
     "9","6","1","5","3","7","2","8","4",
     "2","8","7","4","1","9","6","3","5",
     "3","4","5","2","8","6","1","7","5" >>

\* the digit 1 given twice in the first row, everything else blank
DuplicateGiven ==
  << "1","1",".",".",".",".",".",".",".",
     ".",".",".",".",".",".",".",".",".",
     ".",".",".",".",".",".",".",".",".",
     ".",".",".",".",".",".",".",".",".",
     ".",".",".",".",".",".",".",".",".",
     ".",".",".",".",".",".",".",".",".",
     ".",".",".",".",".",".",".",".",".",
     ".",".",".",".",".",".",".",".",".",
     ".",".",".",".",".",".",".",".","." >>

\* an inconsistent puzzle: the first three cells of row 1 can only hold 1 or 2
EmptiedCell ==
  << ".",".",".","3","4","5","6","7","8",
     "9",".",".",".",".",".",".",".",".",
     ".",".",".",".",".",".",".",".",".",
     ".",".",".",".",".",".",".",".",".",
     ".",".",".",".",".",".",".",".",".",
     ".",".",".",".",".",".",".",".",".",
     ".",".",".",".",".",".",".",".",".",
     ".",".",".",".",".",".",".",".",".",
     ".",".",".",".",".",".",".",".","." >>

\* Complete with the four corners of a rectangle of 6 and 7 blanked: two solutions
DeadlyRectangle ==
  << "5","3","4",".",".","8","9","1","2",
     "6","7","2","1","9","5","3","4","8",
     "1","9","8","3","4","2","5","6","7",
     "8","5","9",".",".","1","4","2","3",
     "4","2","6","8","5","3","7","9","1",
     "7","1","3","9","2","4","8","5","6",
     "9","6","1","5","3","7","2","8","4",
     "2","8","7","4","1","9","6","3","5",
     "3","4","5","2","8","6","1","7","9" >>

\* a puzzle with several solutions on which Bi-Value Universal Grave succeeds
BiValueGrave ==
  << "6","1","8","9",".",".","4","5","3",
     ".","9","5",".","4","3",".","6","2",
     "2","3","4","8","6","5",".","7","9",
     "9",".","1","4","8","6",".","3","7",
     "5",".",".","2","1","9","6","8","4",
     "8","4","6","3","5","7",".",".","1",
     "1","5",".","6","3","4",".",".",".",
     "4","6","2","7","9","8","3","1","5",
     ".","8",".","5","2","1",".","4","." >>

\* a puzzle with one solution that needs Singles Chain Rule 2
SinglesChain ==
  << "4",".",".",".",".","3","5",".","8",
     "6","1",".","2","8",".","4",".",".",
     "8",".",".","5",".",".",".",".","2",
     "3","9",".","8","5","4",".",".","7",
     "5","6",".",".","7",".","8",".",".",
     ".","8","2",".","3",".",".","5",".",
     ".","5","3","4","2",".","7","8",".",
     ".",".","6","3",".","8",".","4",".",
     "2","4","8","7","1",".",".","9","6" >>


\* the one solution of SinglesChain
SinglesChainSolution ==
  << "4","2","9","1","6","3","5","7","8",
     "6","1","5","2","8","7","4","3","9",
     "8","3","7","5","4","9","1","6","2",
     "3","9","1","8","5","4","6","2","7",
     "5","6","4","9","7","2","8","1","3",
     "7","8","2","6","3","1","9","5","4",
     "9","5","3","4","2","6","7","8","1",
     "1","7","6","3","9","8","2","4","5",
     "2","4","8","7","1","5","3","9","6" >>

\* a puzzle with exactly two solutions
TwoSolutions ==
  << ".",".","9","6","2",".","7","4","8",
     "7",".","4",".","1",".","6","5","2",
     "2",".",".",".","4",".","3","9","1",
     ".","9","2",".","6","4","8","7","3",
     "3",".",".",".","7","8","4",".","9",
     "4","7","8",".","3",".","5",".","6",
     "9","2","3","4","5","6","1","8","7",
     "8","5",".","3","9",".","2","6","4",
     "6","4",".",".","8","2","9","3","5" >>

\* one of the two solutions of TwoSolutions
TwoSolutionsGrid ==
  << "1","3","9","6","2","5","7","4","8",
     "7","8","4","9","1","3","6","5","2",
     "2","6","5","8","4","7","3","9","1",
     "5","9","2","1","6","4","8","7","3",
     "3","1","6","5","7","8","4","2","9",
     "4","7","8","2","3","9","5","1","6",
     "9","2","3","4","5","6","1","8","7",
     "8","5","7","3","9","1","2","6","4",
     "6","4","1","7","8","2","9","3","5" >>

\* a board on which Singles Chain Rule 2 solves cells whose value is still a candidate of their peers
SinglesChainPeers ==
  << "7","4",".","5","2",".","1",".","6",
     ".","5","6","1","8",".","7",".","4",
     "1",".","9","7","4","6",".","3","5",
     ".",".","7",".","1","4",".","5","9",
     ".",".","1",".",".","2","6","4","7",
     ".",".","4","6",".","7","3","1",".",
     "9","1",".","2","6","5","4","7",".",
     ".",".","5","4","7","1","9",".",".",
     "4","7","2",".",".","8","5","6","1" >>

\* a contradictory puzzle on which 3D Medusa Rule 1 solves a cell twice, with two values
TwiceColoured ==
  << "7",".",".",".","6",".","4",".",".",
     "6",".","2",".",".",".",".","7","3",
     "1",".","4","7","5",".","8",".",".",
     "5",".",".","8",".",".","1",".","4",
     "4","1","8",".",".","9",".",".",".",
     "2",".",".","4","1",".",".","8",".",
     ".","4","7",".",".",".",".",".",".",
     ".","6","1","2",".","7","3","4","5",
     ".","2","5",".",".",".",".","9","." >>

\* the rows of the flat string s as lines, with the line boundary sep after
\* each of the first eight
InLines(s, sep) ==
  [k \in 1 .. (81 + 8 * Len(sep)) |->
     IF (k - 1) % (9 + Len(sep)) < 9
     THEN s[9 * ((k - 1) \div (9 + Len(sep))) + ((k - 1) % (9 + Len(sep))) + 1]
     ELSE sep[((k - 1) % (9 + Len(sep))) - 8]]

\* Complete as a text of nine lines that end in "\r\n"
CompleteInLines == InLines(Complete, << "\r", "\n" >>) \o << "\r", "\n" >>

\* Trivial without its last character
TooShort == SubSeq(Trivial, 1, 80)

\* Trivial with one more blank
TooLong == Trivial \o << "." >>

\* Trivial with a letter in the middle of row 5
InvalidCharacter == [Trivial EXCEPT ![41] = "x"]

\* the first eight rows of Trivial as eight lines
EightLines == SubSeq(InLines(Trivial, << "\n" >>), 1, 79)

\* Trivial in nine lines, the first of ten characters and the second of eight
UnevenLines ==
  [InLines(Trivial, << "\n" >>) EXCEPT ![10] = Trivial[10], ![11] = "\n"]

\* the strings Setup is given that LoadFromString rejects
MalformedStrings == {TooShort, TooLong, InvalidCharacter, EightLines, UnevenLines}

\* an inconsistent puzzle: the strong links of the digit 1 (and of 8) form a cycle of five cells, A1 A4 D4 E5 E1
OddCycle ==
  << ".","6","3",".","9","4","5","2","7",
     "9",".",".","2",".",".",".",".",".",
     "5",".",".","6",".",".",".",".",".",
     "7",".",".",".","5","3",".",".",".",
     ".","9","4","7",".","6","2","3","5",
     "3",".",".","9","4","2",".",".",".",
     "2",".",".","4",".",".",".",".",".",
     "6",".",".","5",".",".",".",".",".",
     "4",".",".","3",".",".",".",".","." >>

\* a puzzle on which Singles Chain Rule 4 is the first technique that progresses
TwoColorsElsewhere ==
  << ".",".","9",".",".",".","4","8","7",
     "5","7",".","4",".",".",".","9","2",
     ".","4","8",".",".","9","5",".","6",
     "8","2",".",".",".",".","9",".","4",
     ".","9",".","6",".","2","7","5",".",
     ".",".","7",".","9",".","2",".",".",
     ".",".","2",".",".","7",".","4",".",
     "7",".",".","9",".",".",".","2",".",
     ".",".","3","2",".","1","8","7","." >>

\* the puzzle strings Setup is given
PuzzleStrings ==
  {Trivial, Complete, CompleteDuplicate, DuplicateGiven, EmptiedCell, DeadlyRectangle,
   BiValueGrave, SinglesChain, SinglesChainPeers, CompleteInLines, OddCycle, TwoColorsElsewhere}

\* the puzzle strings of the longer runs: puzzles that need the chain
\* techniques on a board with many unsolved cells
LongPuzzleStrings == {Trivial, TwoSolutions, TwiceColoured}

(***************************************************************************)
(* The state machine: one solver object and its client.                    *)
(***************************************************************************)
VARIABLES
  pc,             \* "new", "ready" (Setup done), "rejected" (Setup raised), "solving"
                  \* (inside Solve), "returned", "raised" (an exception left Solve),
                  \* "hung" (a loop never ends)
  input,          \* the puzzle string given to Setup
  puzzle,         \* the SudokuPuzzle that Setup constructs and loads the string into:
                  \* its cells, and the groups each of its cells refers to
  Puzzle,         \* SudokuSolver.Puzzle
  OriginalPuzzle, \* SudokuSolver.OriginalPuzzle
  SolvedPuzzle,   \* SudokuSolver.SolvedPuzzle
  Steps,          \* SudokuSolver.Steps
  CreateSteps,    \* the createSteps argument of Solve and SolveNextStep
  result,         \* what the last Solve returned: "true", "false", or "none" before it returns
  calls,          \* how many calls the client has made after the first Solve returned
  last,           \* the last call of SolveNextStep: the puzzle and the step log it was
                  \* called on, what it returned, the technique that made progress and
                  \* the puzzle when that technique returned
  tick            \* flips at every call of SolveNextStep made by the loop of Solve

vars == <<pc, input, puzzle, Puzzle, OriginalPuzzle, SolvedPuzzle, Steps, CreateSteps, result, calls, last, tick>>

\* the calls the client makes on a solver whose Solve has returned
MaxCalls == 1

\* SudokuPuzzle.__init__: the cells as Reset leaves them, and every cell put
\* into its row, its column and its box by Populate
NewSudokuPuzzle == [Cells |-> NewPuzzle, Groups |-> Groups]

\* SudokuPuzzle.LoadFromString on the puzzle object p: a rejected string
\* leaves it alone; else SudokuPuzzle.Reset calls SudokuCell.Reset on every
\* cell, which drops the cell's Row, Column, Box and Groups, and the digits
\* are set
LoadFromStringInto(p, s) ==
  IF LoadOk(s)
  THEN [Cells |-> LoadFromStringOn(p.Cells, s), Groups |-> [i \in Cells |-> {}]]
  ELSE [Cells |-> LoadFromStringOn(p.Cells, s), Groups |-> p.Groups]

NoCall ==
  [Called |-> FALSE, By |-> "none", Before |-> NewPuzzle, StepsBefore |-> << >>,
   Return |-> "none", Technique |-> "none", AtReturn |-> NewPuzzle,
   SinglesChains |-> [Built |-> FALSE, Chains |-> << >>]]

\* SudokuSolver.__init__
Init ==
  /\ pc = "new"
  /\ input = << >>
  /\ puzzle = NewSudokuPuzzle
  /\ Puzzle = NewPuzzle
  /\ OriginalPuzzle = NewPuzzle
  /\ SolvedPuzzle = NewPuzzle
  /\ Steps = << >>
  /\ CreateSteps \in BOOLEAN
  /\ result = "none"
  /\ calls = 0
  /\ last = NoCall
  /\ tick = FALSE

\* SudokuSolver.Setup(puzzleString=s): Reset, then a new SudokuPuzzle is
\* loaded from the string; if the load fails Setup raises its message, else
\* the loaded cells are copied to Puzzle and OriginalPuzzle and the step
\* "Original" is logged
Setup(s) ==
  /\ pc = "new"
  /\ input' = s
  /\ puzzle' = LoadFromStringInto(NewSudokuPuzzle, s)
  /\ IF LoadOk(s)
     THEN /\ Puzzle' = puzzle'.Cells
          /\ OriginalPuzzle' = puzzle'.Cells
          /\ Steps' = << [Technique |-> "Original", Puzzle |-> puzzle'.Cells,
                          ChangedCells |-> {}] >>
          /\ pc' = "ready"
     ELSE /\ Puzzle' = NewPuzzle
          /\ OriginalPuzzle' = NewPuzzle
          /\ Steps' = << >>
          /\ pc' = "rejected"
  /\ UNCHANGED <<SolvedPuzzle, CreateSteps, result, calls, last, tick>>

\* SudokuSolver.Solve up to its loop: the first ScanSudokuRules
SolveBegin ==
  /\ pc = "ready"
  /\ Puzzle' = ScanSudokuRules(Puzzle)
  /\ pc' = "solving"
  /\ UNCHANGED <<input, puzzle, OriginalPuzzle, SolvedPuzzle, Steps, CreateSteps, result, calls, last, tick>>

\* what a call of SolveNextStep with the result r leaves in `last`
Call(by, r) ==
  [Called |-> TRUE, By |-> by, Before |-> Puzzle, StepsBefore |-> Steps,
   Return |-> r.Return, Technique |-> r.Technique, AtReturn |-> r.AtReturn,
   SinglesChains |-> r.SinglesChains]

\* one iteration of the loop of SudokuSolver.Solve: a call of SolveNextStep
\* and what Solve does with its result
SolveLoop ==
  /\ pc = "solving"
  /\ \E r \in SolveNextStep(Puzzle, Steps, CreateSteps) :
       /\ Puzzle' = r.P
       /\ Steps' = r.Steps
       /\ last' = Call("Solve", r)
       /\ IF r.Return = "raise"
          THEN pc' = "raised" /\ UNCHANGED <<SolvedPuzzle, result>>
          ELSE IF r.Return = "hang"
          THEN pc' = "hung" /\ UNCHANGED <<SolvedPuzzle, result>>
          ELSE IF r.Return = "false"
          THEN pc' = "returned" /\ result' = "false" /\ UNCHANGED SolvedPuzzle
          ELSE IF PuzzleSolved(r.P)
          THEN pc' = "returned" /\ result' = "true" /\ SolvedPuzzle' = r.P
          ELSE UNCHANGED <<pc, SolvedPuzzle, result>>
  /\ tick' = ~tick
  /\ UNCHANGED <<input, puzzle, OriginalPuzzle, CreateSteps, calls>>

\* the client calls Solve again on a solver whose Solve has returned
SolveAgain ==
  /\ pc = "returned"
  /\ calls < MaxCalls
  /\ calls' = calls + 1
  /\ Puzzle' = ScanSudokuRules(Puzzle)
  /\ pc' = "solving"
  /\ result' = "none"
  /\ UNCHANGED <<input, puzzle, OriginalPuzzle, SolvedPuzzle, Steps, CreateSteps, last, tick>>

\* the client calls SolveNextStep itself on a solver whose Solve has returned
StepAgain ==
  /\ pc = "returned"
  /\ calls < MaxCalls
  /\ calls' = calls + 1
  /\ \E r \in SolveNextStep(Puzzle, Steps, CreateSteps) :
       /\ Puzzle' = r.P
       /\ Steps' = r.Steps
       /\ last' = Call("client", r)
       /\ pc' = IF r.Return = "raise" THEN "raised"
                ELSE IF r.Return = "hang" THEN "hung" ELSE "returned"
  /\ UNCHANGED <<input, puzzle, OriginalPuzzle, SolvedPuzzle, CreateSteps, result, tick>>

Next ==
  \/ \E s \in PuzzleStrings \cup MalformedStrings : Setup(s)
  \/ SolveBegin
  \/ SolveLoop
  \/ SolveAgain
  \/ StepAgain

Spec == Init /\ [][Next]_vars

\* the same solver and client on the puzzles of LongPuzzleStrings
LongNext ==
  \/ \E s \in LongPuzzleStrings : Setup(s)
  \/ SolveBegin
  \/ SolveLoop
  \/ SolveAgain
  \/ StepAgain

LongSpec == Init /\ [][LongNext]_vars

\* Solve under the scheduling of the code: Solve waits for nothing, so a Solve
\* that was called makes its first propagation, and a Solve that is in its
\* loop makes its next call of SolveNextStep.  The two actions are SolveBegin
\* and SolveLoop as seen on pc and tick.
SolveBegins == pc = "ready" /\ pc' = "solving"

SolveLoops == pc = "solving" /\ tick' = ~tick

FairSpec == Spec /\ WF_pc(SolveBegins) /\ WF_tick(SolveLoops)

(***************************************************************************)
(* Properties.                                                             *)
(***************************************************************************)
\* the digit the input gives for cell i (0 for a blank)
GivenValue(i) == CharValue(Flattened(input)[i + 1])

\* all cells solved and every row, column and box holds each digit once
ValidGrid(P) ==
  PuzzleSolved(P) /\ \A g \in AllGroups : {P[i].Value : i \in GroupCells[g]} = Digits

\* the full grid sol is a solution of the puzzle string s
IsSolution(sol, s) ==
  /\ LoadOk(sol)
  /\ ValidGrid(LoadFromString(sol))
  /\ \A k \in 1 .. 81 : s[k] \in DigitChars => sol[k] = s[k]

\* Solve has just returned: the board is the one it returned on
SolveReturned == pc = "returned" /\ last.By = "Solve"

\* the last call of SolveNextStep returned True after `technique` made progress
Progressed(technique) == last.Called /\ last.Technique = technique

\* C1: if Solve returns true, all 81 cells are solved, every row, column and
\* box holds each digit 1..9 exactly once, and every given cell still holds
\* its given value
C1_SolveTrueIsValidGrid ==
  (SolveReturned /\ result = "true") =>
     /\ ValidGrid(Puzzle)
     /\ \A i \in Cells : GivenValue(i) # 0 => Puzzle[i].Value = GivenValue(i)

\* Solve returned true on a puzzle that had blanks
C1_Witness ==
  SolveReturned /\ result = "true" /\ \E i \in Cells : GivenValue(i) = 0

\* C2: Solve returns true if and only if the board is fully solved when it
\* returns, also when all 81 cells were given
C2_SolveTrueIffSolved ==
  SolveReturned => (result = "true" <=> PuzzleSolved(Puzzle))

\* the inputs that have exactly one solution, and that solution
UniquePuzzles == {Trivial, SinglesChain}

Solution(s) == IF s = Trivial THEN Complete ELSE SinglesChainSolution

SolutionValue(s, i) == CharValue(Solution(s)[i + 1])

\* C3: on a puzzle with exactly one solution every unsolved cell keeps its
\* solution digit among its candidates, every solved cell holds its solution
\* digit, and the board is never flagged Conflicting
C3_Soundness ==
  (pc # "new" /\ input \in UniquePuzzles) =>
     /\ IsSolution(Solution(input), input)
     /\ \A i \in Cells :
          /\ SolutionValue(input, i) \in Puzzle[i].Candidates
          /\ Puzzle[i].Solved => Puzzle[i].Value = SolutionValue(input, i)
     /\ ~PuzzleConflicting(Puzzle)

\* a colouring technique has just solved cells of a puzzle with one solution
C3_Witness ==
  pc # "new" /\ input \in UniquePuzzles /\ Progressed("Singles Chain Rule 2")

\* what is left to do on a board: the candidates of all cells and the
\* unsolved cells
Measure(P) ==
  Cardinality({id \in Cells \X Digits : id[2] \in P[id[1]].Candidates})
    + Cardinality({i \in Cells : ~P[i].Solved})

C7_CandidatesShrink ==
  [][pc # "new" =>
       \A i \in Cells :
         /\ Puzzle'[i].Candidates \subseteq Puzzle[i].Candidates
         /\ (Puzzle'[i].Solved /\ ~Puzzle[i].Solved) => Puzzle'[i].Value \in Puzzle[i].Candidates
         /\ Puzzle[i].Solved => (Puzzle'[i].Solved /\ Puzzle'[i].Value = Puzzle[i].Value)]_vars

\* a step that both solved a cell and removed candidates of other cells
C7_Witness ==
  /\ last.Called /\ last.Return = "true"
  /\ \E i \in Cells : Puzzle[i].Solved /\ ~last.Before[i].Solved
  /\ \E i \in Cells : ~Puzzle[i].Solved /\ Puzzle[i].Candidates # last.Before[i].Candidates

\* C8: after ScanSudokuRules, on every board, no peer of a solved cell has
\* the value of that cell among its candidates
C8_NoPeerKeepsSolvedValue ==
  LET Q == ScanSudokuRules(Puzzle)
  IN  \A i \in Cells : \A j \in SharedGroupCells[i] :
        Q[i].Solved => Q[i].Value \notin Q[j].Candidates

\* C8 as the code has it: after ScanSudokuRules no peer that has two or more
\* candidates keeps the value of a solved cell (IsCandidate is false for a
\* cell with one candidate, so the last candidate of a peer is never removed)
C8_NoOpenPeerKeepsSolvedValue ==
  LET Q == ScanSudokuRules(Puzzle)
  IN  \A i \in Cells : \A j \in SharedGroupCells[i] :
        (Q[i].Solved /\ CandidateCount(Q[j]) >= 2) => Q[i].Value \notin Q[j].Candidates

\* a board on which ScanSudokuRules removes candidates
C8_Witness ==
  pc # "new" /\ \E j \in Cells : CandidateCount(ScanSudokuRules(Puzzle)[j]) \in 2 .. 8
                                  /\ ScanSudokuRules(Puzzle)[j] # Puzzle[j]

\* C9: ScanSudokuRules run again right after ScanSudokuRules returns false
\* and changes nothing, on every board
C9_ScanSudokuRulesIdempotent ==
  /\ ~ScanSudokuRulesProgress(ScanSudokuRules(Puzzle))
  /\ ScanSudokuRules(ScanSudokuRules(Puzzle)) = ScanSudokuRules(Puzzle)

\* a board on which the first ScanSudokuRules returns true
C9_Witness == pc = "ready" /\ ScanSudokuRulesProgress(Puzzle)

\* the cells of the input that hold a given also given to one of their peers
DuplicateGivens(s) ==
  {i \in Cells : s[i + 1] \in DigitChars /\ \E j \in SharedGroupCells[i] : s[j + 1] = s[i + 1]}

\* C10: if the input gives a digit twice in a group, Solve ends with the
\* duplicate cells flagged Conflicting, whether or not a technique progresses
C10_DuplicateGivenDetected ==
  (SolveReturned /\ DuplicateGivens(Flattened(input)) # {}) =>
     \A i \in DuplicateGivens(Flattened(input)) : Puzzle[i].Conflicting

\* full grids, used to show that an input has a solution
KnownGrids == {Complete, SinglesChainSolution, TwoSolutionsGrid}

\* the puzzle string s is consistent: one of the known grids solves it
Consistent(s) == \E g \in KnownGrids : IsSolution(g, s)

\* (P2) on the board P: every digit has a place in every group
EveryDigitHasAPlace(P) ==
  \A g \in AllGroups : \A d \in Digits :
    \E i \in GroupCells[g] :
      \/ P[i].Solved /\ P[i].Value = d
      \/ ~P[i].Solved /\ d \in P[i].Candidates

\* C4: on a consistent puzzle, in every state reachable during Solve, every
\* group has for every digit a cell solved with it or an unsolved cell that
\* has it among its candidates
C4_EveryDigitHasAPlace ==
  (pc \notin {"new", "rejected"} /\ Consistent(Flattened(input))) => EveryDigitHasAPlace(Puzzle)

\* C4 for the puzzles the techniques are sound on: those with one solution
C4_EveryDigitHasAPlaceIfUnique ==
  (pc # "new" /\ input \in UniquePuzzles) =>
     Consistent(input) /\ EveryDigitHasAPlace(Puzzle)

\* Solve is at work on a puzzle with one solution and has just solved a cell
C4_Witness ==
  /\ pc = "solving" /\ input \in UniquePuzzles /\ last.Called
  /\ \E i \in Cells : Puzzle[i].Solved /\ ~last.Before[i].Solved

\* the boards P and Q agree on the value, the solved flag and the candidates
\* of every cell
SameBoard(P, Q) ==
  \A i \in Cells : /\ P[i].Value = Q[i].Value
                   /\ P[i].Solved = Q[i].Solved
                   /\ P[i].Candidates = Q[i].Candidates

\* a board on which no technique progresses: Solve has returned on a fully
\* solved board, or has returned false without a conflict
NothingToDo ==
  /\ pc = "returned" /\ last.By = "Solve"
  /\ PuzzleSolved(Puzzle) \/ (result = "false" /\ ~PuzzleConflicting(Puzzle))

\* C11: on a board where no technique progresses SolveNextStep returns
\* false, changes no value, solved flag or candidate set and appends no
\* step; Solve called again on such a board returns false with the same
\* grid and no conflict flag
C11_NothingToDoChangesNothing ==
  /\ [][(NothingToDo /\ last'.By = "client") =>
          /\ last'.Return = "false"
          /\ SameBoard(Puzzle', Puzzle)
          /\ Steps' = Steps]_vars
  /\ [][(NothingToDo /\ pc' = "solving") => SameBoard(Puzzle', Puzzle)]_vars
  /\ [][(pc = "solving" /\ calls > 0 /\ last.Return = "false" /\ ~PuzzleConflicting(Puzzle)) =>
          /\ pc' = "returned" /\ result' = "false"
          /\ SameBoard(Puzzle', Puzzle)
          /\ Steps' = Steps
          /\ ~PuzzleConflicting(Puzzle')]_vars

\* the client has called SolveNextStep on a stuck board with unsolved cells
C11_Witness ==
  /\ pc = "returned" /\ last.By = "client" /\ calls = 1
  /\ result = "false" /\ ~PuzzleSolved(Puzzle) /\ ~PuzzleConflicting(Puzzle)

\* C12: Solved, Conflicting and Stuck are terminal: once Solve has returned,
\* any further SolveNextStep or Solve returns false, changes no value or
\* candidate set and appends no step
C12_TerminalStates ==
  /\ [][(SolveReturned /\ last'.By = "client") =>
          /\ last'.Return = "false"
          /\ SameBoard(Puzzle', Puzzle)
          /\ Steps' = Steps]_vars
  /\ [][(SolveReturned /\ pc' = "solving") => SameBoard(Puzzle', Puzzle)]_vars
  /\ [][(pc = "solving" /\ calls > 0) =>
          /\ pc' = "returned" /\ result' = "false"
          /\ SameBoard(Puzzle', Puzzle)
          /\ Steps' = Steps]_vars

\* C12 as the code has it: on a Solved or Stuck board further calls return
\* false and change nothing; on a Conflicting board further calls return
\* false and the board stays Conflicting, but a technique may still remove
\* candidates and a step may still be appended
C12_FurtherCallsReturnFalse ==
  /\ [][(SolveReturned /\ last'.By = "client") =>
          /\ last'.Return = "false"
          /\ PuzzleConflicting(Puzzle) => PuzzleConflicting(Puzzle')
          /\ ~PuzzleConflicting(Puzzle) => (SameBoard(Puzzle', Puzzle) /\ Steps' = Steps)]_vars
  /\ [][(SolveReturned /\ pc' = "solving") => SameBoard(Puzzle', Puzzle)]_vars
  /\ [][(pc = "solving" /\ calls > 0) =>
          /\ pc' = "returned" /\ result' = "false"
          /\ PuzzleConflicting(Puzzle) => PuzzleConflicting(Puzzle')
          /\ ~PuzzleConflicting(Puzzle) => (SameBoard(Puzzle', Puzzle) /\ Steps' = Steps)]_vars

\* a call of SolveNextStep on a Conflicting board has changed the board
C12_Witness ==
  /\ pc = "returned" /\ last.By = "client"
  /\ PuzzleConflicting(last.Before) /\ ~SameBoard(Puzzle, last.Before)
  /\ last.Return = "false"

\* the loop of SudokuSolver.Solve run from the board P: every way it can end
\* under the iteration orders of the sets the techniques walk, as the final
\* board, what Solve returns, the techniques that made progress in order and
\* the length of the step log
RECURSIVE SolveRuns(_, _, _, _)
SolveRuns(P, steps, createSteps, techniques) ==
  UNION {IF r.Return = "true" /\ ~PuzzleSolved(r.P)
         THEN SolveRuns(Evaluated(r.P), r.Steps, createSteps, Append(techniques, r.Technique))
         ELSE {[P |-> r.P, Return |-> r.Return,
                Techniques |-> Append(techniques, r.Technique),
                StepCount |-> Len(r.Steps)]}
         : r \in SolveNextStep(P, steps, createSteps)}

\* Solve has run its first ScanSudokuRules and is about to enter its loop
EnteringLoop == pc = "solving" /\ calls = 0 /\ ~last.Called

\* C13: two executions of Solve on the same puzzle end with the same final
\* board, the same sequence of technique names and the same number of
\* steps, whatever the iteration order of the sets inside the techniques
C13_SolveIsDeterministic ==
  EnteringLoop =>
    LET runs == SolveRuns(Puzzle, Steps, CreateSteps, << >>)
    IN  /\ Cardinality({[i \in Cells |-> <<r.P[i].Value, r.P[i].Candidates>>] : r \in runs}) = 1
        /\ Cardinality({r.Techniques : r \in runs}) = 1
        /\ Cardinality({r.StepCount : r \in runs}) = 1

\* the last call of SolveNextStep returned after a technique made progress
TechniqueProgressed ==
  /\ last.Called /\ last.Technique # "none" /\ last.Return \in {"true", "false"}
  /\ pc = "returned" \/ (pc = "solving" /\ calls = 0)

\* C14: in a SolveNextStep the technique that changed the board is the first
\* of the ordered list that makes progress: every technique before it
\* returned false on the board the step started from, it ran on that same
\* board, no technique ran after it, and the board the step leaves is the
\* technique's board after ScanSudokuRules and then CheckForConflicts
C14_FirstTechniqueInOrder ==
  TechniqueProgressed =>
    LET cleared == ClearStepEliminatedCandidates(last.Before)
        singlesChains == CreateAllSinglesChains(cleared, 1)
        superChains == CreateSuperChains(cleared, singlesChains)
        Outcomes(k) == UseTechnique(OrderedTechniques[k], cleared, CreateSteps,
                                    singlesChains, superChains)
    IN  /\ \A k \in 1 .. Position(last.Technique) - 1 :
             Outcomes(k) = {} \/ \E o \in Outcomes(k) : o.End = "false"
        /\ \E o \in Outcomes(Position(last.Technique)) :
             o.End = "return" /\ o.P = last.AtReturn
        /\ Puzzle = MarkConflicts(ScanSudokuRules(last.AtReturn))
        /\ last.Return = (IF CheckForConflicts(ScanSudokuRules(last.AtReturn))
                          THEN "false" ELSE "true")

\* a technique later than the first of the list made progress in a step
C14_Witness ==
  /\ TechniqueProgressed
  /\ Position(last.Technique) > 4
  /\ Puzzle # last.AtReturn

\* between the boards P and Q some cell lost a candidate or became solved
MadeProgress(P, Q) ==
  \E i \in Cells : \/ Q[i].Candidates # P[i].Candidates /\ Q[i].Candidates \subseteq P[i].Candidates
                   \/ Q[i].Solved /\ ~P[i].Solved

\* the last call of SolveNextStep returned: no technique raised in it and
\* no chain builder hung
StepReturned ==
  /\ last.Called /\ last.Return \in {"true", "false"}
  /\ pc = "returned" \/ (pc = "solving" /\ calls = 0)

\* C15: a technique the driver called that returned false left every
\* cell's value, solved flag and candidates as they were and appended no
\* step; the technique that returned true took a candidate from some cell or
\* solved one and, when steps are recorded, appended exactly one step
C15_TechniqueFrame ==
  StepReturned =>
    LET cleared == ClearStepEliminatedCandidates(last.Before)
        singlesChains == CreateAllSinglesChains(cleared, 1)
        superChains == CreateSuperChains(cleared, singlesChains)
        Outcomes(k) == UseTechnique(OrderedTechniques[k], cleared, CreateSteps,
                                    singlesChains, superChains)
        tried == IF last.Technique = "none" THEN Len(OrderedTechniques)
                 ELSE Position(last.Technique)
    IN  /\ \A k \in 1 .. tried : \A o \in Outcomes(k) :
             /\ o.End = "false" => SameBoard(o.P, cleared)
             /\ o.End = "return" => MadeProgress(cleared, o.P)
        /\ last.Technique = "none" =>
             SameBoard(Puzzle, last.Before) /\ Steps = last.StepsBefore
        /\ last.Technique # "none" =>
             /\ MadeProgress(last.Before, last.AtReturn)
             /\ IF CreateSteps
                THEN /\ Len(Steps) = Len(last.StepsBefore) + 1
                     /\ SubSeq(Steps, 1, Len(last.StepsBefore)) = last.StepsBefore
                     /\ Steps[Len(Steps)].Technique = last.Technique
                ELSE Steps = last.StepsBefore

\* a technique later in the list made progress with steps recorded, after
\* the techniques before it returned false
C15_Witness ==
  /\ StepReturned /\ CreateSteps
  /\ last.Technique # "none" /\ Position(last.Technique) > 1
  /\ Len(Steps) = Len(last.StepsBefore) + 1

\* C16: the step log is append-only and owns its boards: a step of the
\* solver leaves every step already in the log as it was, in its place, and
\* leaves OriginalPuzzle as Setup loaded it
C16_StepLogAppendOnly ==
  [][/\ (pc = "new" /\ pc' = "ready") =>
          /\ OriginalPuzzle' = LoadFromString(input')
          /\ Len(Steps') = 1
          /\ Steps'[1].Technique = "Original"
          /\ Steps'[1].Puzzle = LoadFromString(input')
     /\ pc # "new" =>
          /\ Len(Steps') >= Len(Steps)
          /\ SubSeq(Steps', 1, Len(Steps)) = Steps
          /\ OriginalPuzzle' = OriginalPuzzle]_vars

\* the log holds several technique steps and the live board has moved on
\* from the board of a step recorded before the last one
C16_Witness ==
  /\ Len(Steps) >= 4
  /\ Steps[Len(Steps) - 1].Puzzle # Puzzle
  /\ Steps[Len(Steps) - 1].Puzzle # Steps[Len(Steps)].Puzzle

\* what a call of SolveNextStep leaves for the client to see of the board:
\* for each way the call can end, what it returns and every cell's value,
\* solved flag, candidates and conflicting flag
LiveBoards(P, steps, createSteps) ==
  {<<r.Return, [i \in Cells |-> <<r.P[i].Value, r.P[i].Solved, r.P[i].Candidates,
                                  r.P[i].Conflicting>>]>>
   : r \in SolveNextStep(P, steps, createSteps)}

\* C17: step recording does not influence solving: on every board the solver
\* reaches, SolveNextStep with and without recording returns the same and
\* leaves the same values, solved flags, candidates and conflicting flags,
\* and so does Solve, which is a loop of such calls
C17_RecordingDoesNotInfluence ==
  pc \in {"solving", "returned"} =>
    LiveBoards(Puzzle, Steps, TRUE) = LiveBoards(Puzzle, Steps, FALSE)

\* without recording, a colouring technique that solves cells made progress
\* and left the propagation to SolveNextStep
C17_Witness ==
  /\ StepReturned /\ ~CreateSteps
  /\ last.Technique \in {"Singles Chain Rule 2", "Bi-Value Universal Grave"}
  /\ ScanSudokuRulesProgress(last.AtReturn)

\* the step the last call of SolveNextStep recorded
RecordedStep == Steps[Len(Steps)]

\* the last call of SolveNextStep returned after a technique recorded a step
StepRecorded ==
  StepReturned /\ CreateSteps /\ last.Technique # "none"

\* C18: in every recorded step, each changed cell is a cell of the step's own
\* board and its StepEliminatedCandidates are exactly the candidates the step
\* took from it: its candidates before the step minus its candidates in the
\* step's board, for every technique
C18_StepEliminatedIsTheDifference ==
  StepRecorded =>
    \A i \in RecordedStep.ChangedCells :
      /\ i \in DOMAIN RecordedStep.Puzzle
      /\ RecordedStep.Puzzle[i].StepEliminatedCandidates
           = last.Before[i].Candidates \ RecordedStep.Puzzle[i].Candidates

\* the colouring techniques that solve cells
ColouringSolvers ==
  {"Singles Chain Rule 2", "Bi-Value Universal Grave", "3D Medusa Rule 1",
   "3D Medusa Rule 2", "3D Medusa Rule 6", "X-Cycle"}

\* the cells the technique of the last SolveNextStep solved
NewlySolved == {i \in Cells : last.AtReturn[i].Solved /\ ~last.Before[i].Solved}

\* the last call of SolveNextStep returned after a colouring technique
\* solved cells
ColouringSolved ==
  StepReturned /\ last.Technique \in ColouringSolvers /\ NewlySolved # {}

\* C19: when a colouring technique that solves cells returns true, with or
\* without step recording, the value of each cell it solved is in no peer's
\* candidates
C19_PropagatedAtReturn ==
  ColouringSolved =>
    \A i \in NewlySolved : \A j \in SharedGroupCells[i] :
      last.AtReturn[i].Value \notin last.AtReturn[j].Candidates

\* on the board P the value of the solved cell i is a candidate of no peer
\* that has two or more candidates
AbsentFromOpenPeers(P, i) ==
  \A j \in SharedGroupCells[i] :
    CandidateCount(P[j]) >= 2 => P[i].Value \notin P[j].Candidates

\* C19 as the code has it: Singles Chain Rule 2 has run ScanSudokuRules when
\* it returns only if steps are recorded, Bi-Value Universal Grave never
\* has; in every case SolveNextStep runs it before it returns, so that the
\* value of each newly solved cell is then a candidate of no peer that has
\* two or more candidates
C19_PropagatedBySolveNextStep ==
  ColouringSolved =>
    /\ (CreateSteps /\ last.Technique = "Singles Chain Rule 2") =>
         \A i \in NewlySolved : AbsentFromOpenPeers(last.AtReturn, i)
    /\ \A i \in NewlySolved : AbsentFromOpenPeers(Puzzle, i)

\* Singles Chain Rule 2 solved cells without step recording and returned
\* with a solved value still among the candidates of an open peer
C19_Witness ==
  /\ ColouringSolved /\ ~CreateSteps
  /\ last.Technique = "Singles Chain Rule 2"
  /\ \E i \in NewlySolved : ~AbsentFromOpenPeers(last.AtReturn, i)

\* the cells of the board P that are solved with a value another solved cell
\* of one of their groups has too
DuplicateCells(P) ==
  {i \in Cells : \E g \in AllGroups : \E j \in GroupCells[g] :
     /\ i \in GroupCells[g] /\ j # i
     /\ P[i].Solved /\ P[j].Solved /\ P[i].Value = P[j].Value}

\* the cells of the board P that have no candidate
EmptyCells(P) == {i \in Cells : P[i].Candidates = {}}

\* the cells of the board P flagged Conflicting
Flagged(P) == {i \in Cells : P[i].Conflicting}

\* C20: CheckForConflicts, called by SolveNextStep on the board its
\* ScanSudokuRules left, returns true exactly when two cells of a group are
\* solved with the same value or a cell has no candidate, flags exactly
\* those cells, and leaves every value and candidate set as it was
C20_CheckForConflicts ==
  (StepReturned /\ last.Technique # "none") =>
    LET checked == ScanSudokuRules(last.AtReturn)
        offending == DuplicateCells(checked) \cup EmptyCells(checked)
    IN  /\ (last.Return = "false") <=> (offending # {})
        /\ CheckForConflicts(checked) <=> (offending # {})
        /\ Flagged(Puzzle) = Flagged(checked) \cup offending
        /\ Flagged(Puzzle) = offending
        /\ SameBoard(Puzzle, checked)

\* CheckForConflicts has flagged the cells of a duplicate and no other cell
C20_Witness ==
  /\ StepReturned /\ last.Technique # "none" /\ last.Return = "false"
  /\ Flagged(Puzzle) # {}
  /\ Flagged(Puzzle) = DuplicateCells(Puzzle)
  /\ \E i \in Cells : ~Puzzle[i].Conflicting

\* C21: Solve never reaches the error SetValue raises when a solved cell is
\* given another value: a contradiction in the puzzle shows only as a
\* conflict CheckForConflicts reports
C21_SetValueNeverRaises == pc # "raised"

\* the board LoadFromString makes of the flat rendering of the live board
Reloaded == LoadFromString(PuzzleToString(Puzzle))

\* C22: loading the flat rendering of any board, also one part-way through
\* solving, gives a board equal to it: every cell has the same value, the
\* same solved flag and the same candidates
C22_RoundTrip == pc # "new" => (LoadOk(PuzzleToString(Puzzle)) /\ SameBoard(Reloaded, Puzzle))

\* C22 as the code has it: the rendering is accepted and the reloaded board
\* has the value and the solved flag of every cell; a solved cell has its
\* candidates, an unsolved cell has all nine again, so that the boards are
\* equal when no candidate has been eliminated from an unsolved cell, as on
\* a board just loaded
C22_RoundTripKeepsValues ==
  pc # "new" =>
    /\ LoadOk(PuzzleToString(Puzzle))
    /\ \A i \in Cells :
         /\ Reloaded[i].Value = Puzzle[i].Value
         /\ Reloaded[i].Solved = Puzzle[i].Solved
         /\ Reloaded[i].Candidates = (IF Puzzle[i].Solved THEN Puzzle[i].Candidates ELSE Digits)
    /\ pc = "ready" => SameBoard(Reloaded, Puzzle)

\* a board part-way through solving: cells were solved after the load and
\* an unsolved cell has lost candidates
C22_Witness ==
  /\ pc = "solving"
  /\ \E i \in Cells : Puzzle[i].Solved /\ ~Puzzle[i].Original
  /\ \E i \in Cells : ~Puzzle[i].Solved /\ Puzzle[i].Candidates # Digits
  /\ Reloaded # Puzzle

\* C23: a malformed input (a flat string not of 81 characters, a character
\* that is no digit and no blank, a text that is not nine lines of nine) is
\* rejected and nothing is loaded: LoadFromString leaves the cells of the
\* puzzle it is called on as they were, whatever board that is, and a Setup
\* that raised leaves the puzzle it constructed, the solver's boards and the
\* step log as a new solver has them
C23_MalformedInputRejected ==
  /\ \A s \in MalformedStrings : ~LoadOk(s) /\ LoadFromStringOn(Puzzle, s) = Puzzle
  /\ pc = "rejected" <=> (pc # "new" /\ ~LoadOk(input))
  /\ pc = "rejected" =>
       /\ LoadError(input) \in {"lines", "line length", "size", "character"}
       /\ puzzle = NewSudokuPuzzle
       /\ Puzzle = NewPuzzle /\ OriginalPuzzle = NewPuzzle /\ SolvedPuzzle = NewPuzzle
       /\ Steps = << >>

\* Setup has raised on a string of 81 characters that holds digits and then a
\* letter
C23_Witness ==
  /\ pc = "rejected" /\ LoadError(input) = "character"
  /\ \E k \in 1 .. Len(input) : input[k] \in DigitChars /\ \E j \in (k + 1) .. Len(input) : input[j] = "x"

\* C25: the structure of a puzzle is fixed at construction and survives
\* Reset and LoadFromString: every cell of the puzzle that Setup loaded still
\* refers to its three groups, its row, its column and its box
C25_GroupsSurviveLoad ==
  \A i \in Cells : puzzle.Groups[i] = Groups[i] /\ Cardinality(puzzle.Groups[i]) = 3

\* the __main__ block given --output: what it writes to the output file once
\* Solve has returned
OutputFile == PuzzleToString(SolvedPuzzle)

\* C24: the grid written to the output file holds every given and every cell
\* the solver solved, and a blank for the rest, also when Solve ended on a
\* board that is stuck or conflicting
C24_OutputHoldsSolvedCells ==
  (SolveReturned /\ calls = 0) =>
     \A i \in Cells : OutputFile[i + 1] = ValueChar(Puzzle[i].Value)

\* the singles chains of every candidate on the live board
LiveSinglesChains == CreateAllSinglesChains(Puzzle, 1)

\* the links of a chain whose two cells have one colour
SameColourLinks(chain, colors) ==
  {k \in 1 .. Len(chain.Links) : chain.Links[k] \subseteq colors[1] \/ chain.Links[k] \subseteq colors[2]}

\* the walks along the links of a chain, as the cell a walk ends in with the
\* parity of its length: the walks that are one link longer than one of `ends`
WalkSteps(links, ends) ==
  UNION {{<<c, 1 - e[2]>> : c \in LinkedCells(links, e[1])} : e \in ends}

\* the ends of all walks that start as one of `ends`
RECURSIVE WalkEnds(_, _)
WalkEnds(links, ends) ==
  IF WalkSteps(links, ends) \subseteq ends THEN ends
  ELSE WalkEnds(links, ends \cup WalkSteps(links, ends))

\* the links of the chain form a cycle of odd length: a walk of odd length
\* leads from a cell back to it
HasOddCycle(chain) ==
  \E c \in chain.Cells : <<c, 1>> \in WalkEnds(chain.Links, {<<c, 0>>})

\* C26: every singles chain is properly two-coloured, also on a board whose
\* strong links form an odd cycle: each cell of the chain is in exactly one
\* colour, and the two cells of every strong link have opposite colours
C26_ProperlyTwoColoured ==
  pc \in {"ready", "solving", "returned"} =>
    \A k \in 1 .. Len(LiveSinglesChains) :
      \A colors \in LiveSinglesChains[k].Colorings :
         /\ colors[1] \cup colors[2] = LiveSinglesChains[k].Cells
         /\ colors[1] \cap colors[2] = {}
         /\ SameColourLinks(LiveSinglesChains[k], colors) = {}

\* C26 as the code has it: each cell of a chain is in exactly one colour, and
\* the two cells of every strong link have opposite colours exactly when the
\* links form no odd cycle; the colouring loop colours the cells of an odd
\* cycle all the same, and one of its links then has both cells in one colour
C26_ProperUnlessOddCycle ==
  pc \in {"ready", "solving", "returned"} =>
    \A k \in 1 .. Len(LiveSinglesChains) :
      \A colors \in LiveSinglesChains[k].Colorings :
         /\ colors[1] \cup colors[2] = LiveSinglesChains[k].Cells
         /\ colors[1] \cap colors[2] = {}
         /\ (SameColourLinks(LiveSinglesChains[k], colors) = {})
              <=> ~HasOddCycle(LiveSinglesChains[k])

\* a board with a chain whose links form an odd cycle, coloured with one link
\* in one colour, and a chain of four or more cells without an odd cycle
C26_Witness ==
  /\ pc = "solving"
  /\ \E k \in 1 .. Len(LiveSinglesChains) :
       /\ HasOddCycle(LiveSinglesChains[k])
       /\ \E colors \in LiveSinglesChains[k].Colorings :
            Cardinality(SameColourLinks(LiveSinglesChains[k], colors)) = 1
  /\ \E k \in 1 .. Len(LiveSinglesChains) :
       /\ ~HasOddCycle(LiveSinglesChains[k])
       /\ Cardinality(LiveSinglesChains[k].Cells) >= 4

\* the super chains on the live board, each as the set of the ways it can be
\* coloured
LiveSuperChains == CreateSuperChains(Puzzle, LiveSinglesChains)

\* the singles chains of a super chain that hold the cell
ChainsAt(superChain, i) ==
  {n \in 1 .. Len(superChain.SinglesChains) : i \in superChain.SinglesChains[n].Cells}

\* the link cells of a coloured super chain at which two of its singles
\* chains give their candidates the same colour
SameColourLinkCells(superChain) ==
  {i \in superChain.LinkCells :
     \E n \in ChainsAt(superChain, i) : \E m \in ChainsAt(superChain, i) \ {n} :
        \E c \in 1 .. 2 : i \in superChain.SinglesChains[n].Colors[c]
                            /\ i \in superChain.SinglesChains[m].Colors[c]}

\* C27: every super chain is globally consistently coloured: at every link
\* cell the two candidates have opposite colours, also when two singles
\* chains share several link cells or the chains are linked in a cycle
C27_GloballyConsistent ==
  pc \in {"ready", "solving", "returned"} =>
    \A s \in 1 .. Len(LiveSuperChains) :
      \A superChain \in Colorized(LiveSuperChains[s]) : SameColourLinkCells(superChain) = {}

\* the singles chains of a coloured super chain that have a link cell at which
\* another of its singles chains has the opposite colour
AlignedChains(superChain) ==
  {n \in 1 .. Len(superChain.SinglesChains) :
     \E i \in superChain.SinglesChains[n].Cells \cap superChain.LinkCells :
        \E m \in ChainsAt(superChain, i) \ {n} :
           \E c \in 1 .. 2 : i \in superChain.SinglesChains[n].Colors[c]
                               /\ i \in superChain.SinglesChains[m].Colors[3 - c]}

\* C27 as the code has it: each singles chain of a super chain is aligned,
\* through one link cell, with a chain that was coloured before it, so every
\* singles chain has a link cell at which another chain has the opposite
\* colour; the other link cells are not looked at.  On the boards of a puzzle
\* with exactly one solution all link cells have opposite colours
C27_AlignedAtOneLinkCell ==
  pc \in {"ready", "solving", "returned"} =>
    \A s \in 1 .. Len(LiveSuperChains) :
      \A superChain \in Colorized(LiveSuperChains[s]) :
         /\ AlignedChains(superChain) = 1 .. Len(superChain.SinglesChains)
         /\ input \in UniquePuzzles => SameColourLinkCells(superChain) = {}

\* a coloured super chain in which two singles chains share two or more link
\* cells and have the same colour at one of them
C27_Witness ==
  /\ pc = "solving"
  /\ \E s \in 1 .. Len(LiveSuperChains) : \E superChain \in Colorized(LiveSuperChains[s]) :
       \E n \in 1 .. Len(superChain.SinglesChains) : \E m \in 1 .. Len(superChain.SinglesChains) :
          /\ n # m
          /\ Cardinality(superChain.SinglesChains[n].Cells \cap superChain.SinglesChains[m].Cells
                           \cap superChain.LinkCells) >= 2
          /\ superChain.SinglesChains[n].Cells \cap superChain.SinglesChains[m].Cells
               \cap SameColourLinkCells(superChain) # {}

\* the four cells are a unique rectangle with exactly two bi-value cells: the
\* two hold the same two candidates and the other two hold them and more
TwoBiValueRectangle(P, cells) ==
  /\ Cardinality({i \in cells : CandidateCount(P[i]) = 2}) = 2
  /\ \A i \in cells : CandidateCount(P[i]) >= 2
  /\ \A i \in cells : \A j \in cells :
       CandidateCount(P[i]) = 2 => P[i].Candidates \subseteq P[j].Candidates

\* the strong links Hidden Unique Rectangle Rule 2 is about: a bi-value cell b
\* and a non-bi-value cell n of the rectangle, a group g they share and a
\* candidate d of the rectangle that only two cells of g hold
HiddenRule2Links(P, cells) ==
  {l \in (cells \X cells) \X (AllGroups \X Digits) :
     /\ CandidateCount(P[l[1][1]]) = 2 /\ CandidateCount(P[l[1][2]]) > 2
     /\ l[2][1] \in Groups[l[1][1]] \cap Groups[l[1][2]]
     /\ l[2][2] \in P[l[1][1]].Candidates
     /\ Cardinality(GetCellsWithCandidate(P, l[2][1], l[2][2])) = 2}

\* the rectangles of the live board on which Hidden Unique Rectangle Rule 2
\* has its strong link
HiddenRule2Rectangles ==
  {k \in 1 .. Len(Rectangles) :
     /\ TwoBiValueRectangle(Puzzle, RectangleCells(Rectangles[k]))
     /\ HiddenRule2Links(Puzzle, RectangleCells(Rectangles[k])) # {}}

\* C28: on a rectangle with exactly two bi-value cells where a candidate of
\* the rectangle forms a strong link in a group that a bi-value cell and a
\* non-bi-value cell share, ScanUniqueRectangle does not pass on: if none of
\* the earlier rules progresses, Hidden Unique Rectangle Rule 2 eliminates
\* the other candidate from the fourth cell and returns true
C28_HiddenRule2Applied ==
  pc = "solving" =>
    \A k \in HiddenRule2Rectangles :
      \A o \in UniqueRectangleOn(Puzzle, CreateSteps, RectangleCells(Rectangles[k])) :
         o.End # "false"

\* the last call of SolveNextStep returned after Singles Chain Rule 4
Rule4Progressed == StepReturned /\ last.Technique = "Singles Chain Rule 4"

\* the candidates the technique of the last step took from a cell
TakenFrom(i) ==
  ClearStepEliminatedCandidates(last.Before)[i].Candidates \ last.AtReturn[i].Candidates

\* the cell shares a group with a cell of each colour and is neither
SeesBothColors(i, colors) ==
  /\ \E cell1 \in colors[1] \ {i} : Groups[i] \cap Groups[cell1] # {}
  /\ \E cell2 \in colors[2] \ {i} : Groups[i] \cap Groups[cell2] # {}

\* C29: when Singles Chain Rule 4 is the technique of a step, there is a
\* singles chain of the board the step started from, with candidate d, such
\* that the rule took nothing but d from any cell, took d only from cells
\* that are not cells of the chain and that share a group with a cell of one
\* colour and with a cell of the other, and solved no cell
C29_Rule4OnlyOffChain ==
  Rule4Progressed =>
    LET cleared == ClearStepEliminatedCandidates(last.Before)
        chains == CreateAllSinglesChains(cleared, 1)
    IN  \E k \in 1 .. Len(chains) : \E colors \in CompleteColorings(chains[k]) :
          \A i \in Cells :
             /\ last.AtReturn[i].Candidates \subseteq cleared[i].Candidates
             /\ TakenFrom(i) \subseteq {chains[k].Candidate}
             /\ TakenFrom(i) # {} => i \notin chains[k].Cells /\ SeesBothColors(i, colors)
             /\ last.AtReturn[i].Value = cleared[i].Value
             /\ last.AtReturn[i].Solved = cleared[i].Solved

\* Singles Chain Rule 4 took the candidate of a chain from a cell
C29_Witness ==
  Rule4Progressed /\ \E i \in Cells : TakenFrom(i) # {}

\* the last call of SolveNextStep returned and its techniques read the cache
\* of singles chains
CacheRead == StepReturned /\ last.SinglesChains.Built

\* the strong links of a board: the candidates with the pairs of cells that
\* are the only two cells of some group that hold the candidate
StrongLinks(P) ==
  {<<l[1], GetCellsWithCandidate(P, l[2], l[1])>> :
     l \in {x \in Digits \X AllGroups :
              Cardinality(GetCellsWithCandidate(P, x[2], x[1])) = 2}}

\* the links of the chains of a cache, each with the candidate of its chain
CachedLinks(chains) ==
  UNION {{<<chains[k].Candidate, chains[k].Links[n]>> : n \in 1 .. Len(chains[k].Links)}
         : k \in 1 .. Len(chains)}

\* C30: the techniques of a SolveNextStep read singles chains (and the super
\* chains made of them) that were built on the board the step started from,
\* with the step-eliminated candidates cleared, which is also the board the
\* reading technique was called on: the links of the cached chains are the
\* strong links of that board, each the only two cells of some group that
\* hold the candidate
C30_CachedLinksAreStrong ==
  CacheRead =>
    LET cleared == ClearStepEliminatedCandidates(last.Before)
    IN  /\ \A i \in Cells : cleared[i].StepEliminatedCandidates = {}
        /\ \A i \in Cells : cleared[i].Candidates = last.Before[i].Candidates
        /\ CachedLinks(last.SinglesChains.Chains) = StrongLinks(cleared)

\* a SolveNextStep that followed a step in which a technique changed the
\* board read a cache that holds chains
C30_Witness ==
  /\ CacheRead
  /\ last.SinglesChains.Chains # << >>
  /\ Len(last.StepsBefore) >= 2
  /\ \E i \in Cells : last.Before[i].StepEliminatedCandidates # {}

====
